---- MODULE Spec2Model ----
(***************************************************************************)
(* A model of tdocs7: the smart-fetch decision pipeline (smartFetch,       *)
(* fetchDocument), the headless renderer (renderPage, renderSwaggerPage),  *)
(* the process-wide lazily initialised singletons (getHttpClient,          *)
(* isPuppeteerAvailable), format detection, the Markdown/HTML chunkers,    *)
(* the scorer, the search orchestrator (searchInDocs, selectBestResults,   *)
(* getExpandedContext), the handler of the search_docs tool, the JSON text *)
(* extraction, the OpenAPI retrieval and conversion, and                   *)
(* getPuppeteerStatus.                                                     *)
(*                                                                         *)
(* Each subsystem has a specification of its own (SpecFetch, SpecRender,   *)
(* SpecSingleton, SpecChunk, SpecSearch, SpecFormat, SpecHistory,          *)
(* SpecScore, SpecQuery, SpecContext, SpecHandler, SpecTool,               *)
(* SpecFetchLive, SpecMarkdown, SpecHtmlChunk, SpecOptions, SpecJson,      *)
(* SpecOpenApi, SpecStatus); the variables of the subsystems a             *)
(* specification does not exercise stay at their initial values.           *)
(***************************************************************************)
EXTENDS Integers, Sequences, FiniteSets, TLC

VARIABLES
    \* ---- process-wide singletons
    httpClientInstance,   \* 0 (null) or the number of the axios instance
    clientCreates,        \* how many times axios.create ran
    puppeteerAvailable,   \* "null", TRUE or FALSE (the cache)
    puppeteerModule,      \* "null", "puppeteer" or "puppeteer-core"
    installed,            \* which package the process can import
    importRuns,           \* how many times import("puppeteer") was attempted
    apc,                  \* caller -> position inside isPuppeteerAvailable
    aret,                 \* caller -> value isPuppeteerAvailable returned
    cret,                 \* caller -> client getHttpClient returned (0: none yet)
    \* ---- headless renderer
    rfn,                  \* function running: renderPage / renderSwaggerPage
    rpc,                  \* position inside it
    rstep,                \* index of the next awaited operation of the try body
    ropts,                \* renderPage options
    browser,              \* the local variable browser: "null" or "set"
    launches,             \* browsers launched
    closeCalls,           \* browser.close() calls issued
    closeFailed,          \* whether a close() call threw
    rpending,             \* the value of the return statement that ran
    rresult,              \* the value the function returned
    \* ---- smartFetch / fetchDocument
    entry,                \* the exported function called: fetchDocument / smartFetch
    useSmartFetch,        \* FetchDocumentOptions.useSmartFetch
    opts,                 \* SmartFetchOptions (the three switches)
    fpc,                  \* position inside fetchDocument / smartFetch
    httpResult,           \* result of fetchWithHttp
    detection,            \* result of detectSwagger
    probeIdx,             \* next candidate of probeCommonSpecEndpoints
    sfResult,             \* the SmartFetchResult smartFetch returned
    fdResult,             \* what fetchDocument returned or threw
    docGets,              \* client.get(url) requests of the documentation URL
    specGets,             \* the URLs fetchOpenApiSpec requested, in order
    specBodies,           \* what each of those requests came to, in order
    heads,                \* the HEAD requests issued, in order
    headAnswers,          \* whether tryFetchSpec accepted each of them, in order
    log,                  \* strategies started and how each ended, in order
    \* searchInDocs
    chunks,               \* the chunks of the document, each by its length
    scores,               \* calculateRelevanceScore of each chunk
    maxResults,
    spc,                  \* position in searchInDocs
    relevantChunks,       \* indices of the chunks with score > 0, ranked
    loopIdx,              \* position of the for loop of selectBestResults
    usedIndices,
    results,              \* the expanded contexts pushed, with their source index
    searchResult,         \* what searchInDocs returned
    \* splitIntoChunks
    document,             \* the document, as tokens (text) or elements (HTML)
    cpc,                  \* position in splitIntoChunks
    refinedChunks,        \* the chunks before the minimum-size filter
    returnedChunks,       \* what splitIntoChunks returned
    \* detectDocumentFormat and the module-level regular expressions
    lastIndex,            \* lastIndex of each shared regex with the g flag
    detectArg,            \* the document of the latest call
    detectResult,         \* the FormatDetectionResult of the latest call
    chosenFormat,         \* the strategy splitIntoChunks chose in that call
    dcalls,               \* calls made so far
    \* calculateRelevanceScore
    scoreInput,           \* a chunk, a term and where the term is added
    scoreOut,             \* the scores computed, in order
    query,                \* the searchQuery of searchInDocs
    chunkTexts,           \* the chunks of the document searched, as strings
    docText,              \* the document searched, as a string
    parsed,               \* what JSON.parse made of a JSON document
    textContent,          \* what extractJsonTextContent returned for it
    \* getExpandedContext
    contextArg,           \* the chunks (by length) and the targetIndex passed
    contextOut,            \* what the call returned
    \* the search_docs tool
    hpc,                  \* position in the handler
    max_results,          \* the argument of the call (0: not given)
    output,               \* the structuredContent returned
    \* trySwaggerExtraction on one spec URL
    opc,                  \* position in it, then in fetchDocument
    specData,             \* what the request of the spec URL came to
    spec,                 \* what fetchOpenApiSpec returned
    swaggerResult         \* what trySwaggerExtraction returned

vars == <<httpClientInstance, clientCreates, puppeteerAvailable, puppeteerModule,
          installed, importRuns, apc, aret, cret,
          rfn, rpc, rstep, ropts, browser, launches, closeCalls, closeFailed,
          rpending, rresult,
          entry, useSmartFetch, opts, fpc, httpResult, detection, probeIdx,
          sfResult, fdResult, docGets, specGets, specBodies, heads, headAnswers, log,
          chunks, scores, maxResults, spc, relevantChunks, loopIdx,
          usedIndices, results, searchResult,
          document, cpc, refinedChunks, returnedChunks,
          lastIndex, detectArg, detectResult, chosenFormat, dcalls,
          scoreInput, scoreOut, query, chunkTexts, docText, parsed, textContent,
          contextArg, contextOut,
          hpc, max_results, output,
          opc, specData, spec, swaggerResult>>

singletonVars == <<httpClientInstance, clientCreates, puppeteerAvailable,
                   puppeteerModule, installed, importRuns, apc, aret, cret>>
renderVars == <<rfn, rpc, rstep, ropts, browser, launches, closeCalls,
                closeFailed, rpending, rresult>>
fetchVars == <<entry, useSmartFetch, opts, fpc, httpResult, detection, probeIdx,
               sfResult, fdResult, docGets, specGets, specBodies, heads, headAnswers, log>>
searchVars == <<chunks, scores, maxResults, spc, relevantChunks, loopIdx,
                usedIndices, results, searchResult>>

\* The variables of the server process, and those of the document functions.
processVars == <<singletonVars, renderVars, fetchVars>>
chunkVars == <<document, cpc, refinedChunks, returnedChunks>>
detectVars == <<lastIndex, detectArg, detectResult, chosenFormat, dcalls>>
scoreVars == <<scoreInput, scoreOut, query, chunkTexts, docText, parsed,
               textContent>>
contextVars == <<contextArg, contextOut>>
handlerVars == <<hpc, max_results, output>>
openApiVars == <<opc, specData, spec, swaggerResult>>
pureVars ==
    <<searchVars, chunkVars, detectVars, scoreVars, contextVars, handlerVars,
      openApiVars>>
notSearchVars ==
    <<processVars, chunkVars, detectVars, scoreVars, contextVars, handlerVars,
      openApiVars>>
notChunkVars ==
    <<processVars, searchVars, detectVars, scoreVars, contextVars, handlerVars,
      openApiVars>>
notDetectVars ==
    <<processVars, searchVars, chunkVars, scoreVars, contextVars, handlerVars,
      openApiVars>>
notScoreVars ==
    <<processVars, searchVars, chunkVars, detectVars, contextVars, handlerVars,
      openApiVars>>
notOpenApiVars ==
    <<processVars, searchVars, chunkVars, detectVars, scoreVars, contextVars,
      handlerVars>>
notContextVars ==
    <<processVars, searchVars, chunkVars, detectVars, scoreVars, handlerVars,
      openApiVars>>

Null == "null"

(***************************************************************************)
(* Bounds of the model.                                                    *)
(***************************************************************************)
NumCallers == 2
\* Candidates of generateSpecUrls and of ROOT_SPEC_ENDPOINTS the model keeps.
MaxRelative == 1
MaxRoot == 1

\* Chunks of a searched document, and the largest maxResults asked for.
MaxChunks == 4
MaxResultsBound == 3

\* Blocks of a text document, sentences of a block, elements of an HTML
\* document.
MaxBlocks == 3
MaxSentences == 2
MaxElements == 3

Callers == 1..NumCallers

(***************************************************************************)
(* Process-wide singletons.                                                *)
(***************************************************************************)

\* getHttpClient: synchronous, so it runs without interleaving.  The instance
\* is created when the module variable is still null.
getHttpClient(p) ==
    /\ IF httpClientInstance = 0
          THEN /\ httpClientInstance' = clientCreates + 1
               /\ clientCreates' = clientCreates + 1
          ELSE UNCHANGED <<httpClientInstance, clientCreates>>
    /\ cret' = [cret EXCEPT ![p] = httpClientInstance']

\* isPuppeteerAvailable up to its first await: the cached value is returned,
\* or import("puppeteer") is started and the caller is suspended.
isPA_check(p) ==
    /\ apc[p] = "check"
    /\ IF puppeteerAvailable # Null
          THEN /\ aret' = [aret EXCEPT ![p] = puppeteerAvailable]
               /\ apc' = [apc EXCEPT ![p] = "done"]
               /\ UNCHANGED importRuns
          ELSE /\ apc' = [apc EXCEPT ![p] = "import1"]
               /\ importRuns' = importRuns + 1
               /\ UNCHANGED aret
    /\ UNCHANGED <<puppeteerAvailable, puppeteerModule>>

\* import("puppeteer") settles: the module is stored, or the catch block
\* starts import("puppeteer-core").
isPA_import1(p) ==
    /\ apc[p] = "import1"
    /\ IF installed = "puppeteer"
          THEN /\ puppeteerModule' = "puppeteer"
               /\ puppeteerAvailable' = "true"
               /\ aret' = [aret EXCEPT ![p] = "true"]
               /\ apc' = [apc EXCEPT ![p] = "done"]
          ELSE /\ apc' = [apc EXCEPT ![p] = "import2"]
               /\ UNCHANGED <<puppeteerModule, puppeteerAvailable, aret>>
    /\ UNCHANGED importRuns

\* import("puppeteer-core") settles.
isPA_import2(p) ==
    /\ apc[p] = "import2"
    /\ IF installed = "puppeteer-core"
          THEN /\ puppeteerModule' = "puppeteer-core"
               /\ puppeteerAvailable' = "true"
               /\ aret' = [aret EXCEPT ![p] = "true"]
          ELSE /\ puppeteerAvailable' = "false"
               /\ aret' = [aret EXCEPT ![p] = "false"]
               /\ UNCHANGED puppeteerModule
    /\ apc' = [apc EXCEPT ![p] = "done"]
    /\ UNCHANGED importRuns

\* The steps of isPuppeteerAvailable of caller p, whoever called it.
isPuppeteerAvailable(p) ==
    /\ \/ isPA_check(p)
       \/ isPA_import1(p)
       \/ isPA_import2(p)
    /\ UNCHANGED <<httpClientInstance, clientCreates, installed, cret>>

Packages == {"puppeteer", "puppeteer-core", "none"}

\* The cache once an earlier call has filled it: it agrees with what the
\* process can import.
CacheOf(pkg) ==
    IF pkg = "none" THEN <<"false", Null>> ELSE <<"true", pkg>>

SingletonIdle ==
    /\ apc = [p \in Callers |-> "idle"]
    /\ aret = [p \in Callers |-> Null]
    /\ cret = [p \in Callers |-> 0]

(***************************************************************************)
(* Headless renderer: renderPage and renderSwaggerPage.  Each awaited      *)
(* operation of the try body is one step and may throw; the catch block    *)
(* turns the exception into a failure result; the finally block closes the *)
(* browser when the local variable browser was set.                        *)
(***************************************************************************)
RenderResult(success, html, text, error, method) ==
    [success |-> success, html |-> html, text |-> text, error |-> error,
     method |-> method]

NoResult == RenderResult(FALSE, Null, Null, Null, "none")
Unavailable == RenderResult(FALSE, Null, Null, "not installed", "unavailable")
RenderFailure == RenderResult(FALSE, Null, Null, "render failed", "puppeteer")

\* The awaited operations of the try bodies, in program order.
renderPageOps ==
    <<"launch", "newPage", "setViewport", "setUserAgent", "goto",
      "waitForSelector", "settle", "content", "evaluateText">>
renderSwaggerPageOps ==
    <<"launch", "newPage", "goto", "settle", "evaluateSpec",
      "convertSpecToMarkdown", "content", "evaluateText">>

OpsOf(fn) == IF fn = "renderPage" THEN renderPageOps ELSE renderSwaggerPageOps

\* The caller whose isPuppeteerAvailable the renderer and smartFetch await.
Main == 1

\* Entry of renderPage / renderSwaggerPage: isPuppeteerAvailable is awaited.
renderEnter(fn, o) ==
    /\ rfn' = fn
    /\ ropts' = o
    /\ rpc' = "avail"
    /\ rstep' = 0
    /\ browser' = Null
    /\ rpending' = NoResult
    /\ rresult' = NoResult
    /\ apc' = [apc EXCEPT ![Main] = "check"]
    /\ aret' = [aret EXCEPT ![Main] = Null]

\* isPuppeteerAvailable returned: without the module the function returns
\* the "unavailable" result before the try statement.
renderAvailable ==
    /\ rpc = "avail"
    /\ apc[Main] = "done"
    /\ apc' = [apc EXCEPT ![Main] = "idle"]
    /\ IF aret[Main] # "true" \/ puppeteerModule = Null
          THEN /\ rresult' = Unavailable
               /\ rpc' = "returned"
               /\ UNCHANGED rstep
          ELSE /\ rpc' = "try"
               /\ rstep' = 1
               /\ UNCHANGED rresult
    /\ UNCHANGED <<rfn, ropts, browser, launches, closeCalls, closeFailed,
                   rpending>>
    /\ UNCHANGED <<httpClientInstance, clientCreates, puppeteerAvailable,
                   puppeteerModule, installed, importRuns, aret, cret>>
    /\ UNCHANGED fetchVars
    /\ UNCHANGED pureVars

\* An awaited operation throws: the catch block returns the failure result
\* and control passes to the finally block.  waitForSelector has a try/catch
\* of its own and the settle timer cannot fail.
ThrowingOps ==
    {"launch", "newPage", "setViewport", "setUserAgent", "goto", "content",
     "evaluateSpec", "evaluateText"}

OpRuns(op) ==
    CASE op = "waitForSelector" -> ropts.waitForSelector
      [] op = "evaluateText" -> rfn = "renderSwaggerPage" \/ ropts.extractText
      [] OTHER -> TRUE

renderThrow ==
    /\ rpc = "try"
    /\ OpsOf(rfn)[rstep] \in ThrowingOps
    /\ OpRuns(OpsOf(rfn)[rstep])
    /\ rpending' = RenderFailure
    /\ rpc' = "finally"
    /\ UNCHANGED <<rfn, rstep, ropts, browser, launches, closeCalls,
                   closeFailed, rresult>>

\* puppeteerModule.launch resolves: the local variable browser is set.
renderLaunch ==
    /\ rpc = "try"
    /\ OpsOf(rfn)[rstep] = "launch"
    /\ browser' = "set"
    /\ launches' = launches + 1
    /\ rstep' = rstep + 1
    /\ UNCHANGED <<rfn, rpc, ropts, closeCalls, closeFailed, rpending, rresult>>

\* An operation that only has to complete (or, for waitForSelector, whose
\* failure is swallowed, or which the options skip).
PlainOps ==
    {"newPage", "setViewport", "setUserAgent", "goto", "waitForSelector",
     "settle", "content"}

renderPlain ==
    /\ rpc = "try"
    /\ OpsOf(rfn)[rstep] \in PlainOps
    /\ rstep' = rstep + 1
    /\ UNCHANGED <<rfn, rpc, ropts, browser, launches, closeCalls,
                   closeFailed, rpending, rresult>>

\* page.evaluate of the spec extraction script returns a spec string or null;
\* with null the conversion is skipped.
renderEvaluateSpec ==
    /\ rpc = "try"
    /\ OpsOf(rfn)[rstep] = "evaluateSpec"
    /\ \E found \in BOOLEAN :
          rstep' = IF found THEN rstep + 1 ELSE rstep + 2
    /\ UNCHANGED <<rfn, rpc, ropts, browser, launches, closeCalls,
                   closeFailed, rpending, rresult>>

\* convertSpecToMarkdown catches every exception (JSON.parse, the import,
\* openApiToMarkdown) and returns null; a non-empty markdown is returned as
\* the result, otherwise the text fallback follows.
renderConvert ==
    /\ rpc = "try"
    /\ OpsOf(rfn)[rstep] = "convertSpecToMarkdown"
    /\ \E markdown \in {"markdown", "", Null} :
          IF markdown \notin {"", Null}
             THEN /\ rpending' = RenderResult(TRUE, "spec", markdown, Null,
                                              "puppeteer")
                  /\ rpc' = "finally"
                  /\ UNCHANGED rstep
             ELSE /\ rstep' = rstep + 1
                  /\ UNCHANGED <<rpending, rpc>>
    /\ UNCHANGED <<rfn, ropts, browser, launches, closeCalls, closeFailed,
                   rresult>>

\* The last operation of the try body: the text of the rendered page (absent
\* when renderPage runs with extractText = false), trimmed, is returned.
renderEvaluateText ==
    /\ rpc = "try"
    /\ OpsOf(rfn)[rstep] = "evaluateText"
    /\ \E text \in IF OpRuns("evaluateText") THEN {"text", ""} ELSE {Null} :
          rpending' = RenderResult(TRUE, "html", text, Null, "puppeteer")
    /\ rpc' = "finally"
    /\ UNCHANGED <<rfn, rstep, ropts, browser, launches, closeCalls,
                   closeFailed, rresult>>

renderFinally_CloseOnSuccessOnly ==
    /\ rpc = "finally"
    /\ IF browser # Null /\ rpending.success
          THEN /\ closeCalls' = closeCalls + 1
               /\ \E threw \in BOOLEAN : closeFailed' = threw
          ELSE UNCHANGED <<closeCalls, closeFailed>>
    /\ rresult' = rpending
    /\ rpc' = "returned"
    /\ UNCHANGED <<rfn, rstep, ropts, browser, launches, rpending>>

\* The finally block: if (browser) { try { await browser.close() } catch {} }.
\* A close that throws is ignored, and the function returns the value of the
\* return statement that ran.
renderFinally ==
    /\ rpc = "finally"
    /\ IF browser # Null
          THEN /\ closeCalls' = closeCalls + 1
               /\ \E threw \in BOOLEAN : closeFailed' = threw
          ELSE UNCHANGED <<closeCalls, closeFailed>>
    /\ rresult' = rpending
    /\ rpc' = "returned"
    /\ UNCHANGED <<rfn, rstep, ropts, browser, launches, rpending>>

\* The steps of the running render function after its availability test;
\* they touch none of the singletons.
renderBody ==
    /\ \/ renderThrow
       \/ renderLaunch
       \/ renderPlain
       \/ renderEvaluateSpec
       \/ renderConvert
       \/ renderEvaluateText
       \/ renderFinally
    /\ UNCHANGED <<singletonVars, fetchVars>>
    /\ UNCHANGED pureVars

RenderOptions == [waitForSelector : BOOLEAN, extractText : BOOLEAN]
NoRenderOptions == [waitForSelector |-> FALSE, extractText |-> FALSE]

RenderIdle ==
    /\ rfn = "none" /\ rpc = "idle" /\ rstep = 0
    /\ ropts = NoRenderOptions
    /\ browser = Null /\ launches = 0 /\ closeCalls = 0 /\ closeFailed = FALSE
    /\ rpending = NoResult /\ rresult = NoResult

(***************************************************************************)
(* smartFetch and fetchDocument.  URLs are abstract: the documentation URL *)
(* and the spec URLs a page can embed or the probe can try.  What the      *)
(* network answers is chosen when the request is made.                     *)
(***************************************************************************)
NoUrl == <<"none", 0>>
EmbeddedUrl == <<"embedded", 0>>
\* A relative reference, as a page writes it, that resolves to EmbeddedUrl.
EmbeddedReference == <<"reference", 0>>
RelativeUrl(i) == <<"relative", i>>
RootUrl(i) == <<"root", i>>

\* The list generateSpecUrls pushes: the RELATIVE_SPEC_SUFFIXES candidates,
\* then the files that replace the last path segment.  "../swagger.json" of
\* the first loop and "swagger.json" of the second are the same URL, so the
\* list repeats a candidate it already holds.
GeneratedUrls ==
    [i \in 1..(MaxRelative + 1) |->
        RelativeUrl(IF i > MaxRelative THEN 1 ELSE i)]

\* [...new Set(urls)]: each URL once, at the position of its first occurrence.
\* The first definition returns the list as it was pushed.
RECURSIVE RemoveDuplicates(_)
RemoveDuplicates_KeepAll(s) == s
RemoveDuplicates(s) ==
    IF s = << >> THEN << >>
    ELSE LET front == RemoveDuplicates(SubSeq(s, 1, Len(s) - 1))
             last == s[Len(s)]
         IN  IF \E i \in DOMAIN front : front[i] = last
                THEN front
                ELSE Append(front, last)

generateSpecUrls == RemoveDuplicates(GeneratedUrls)

\* probeCommonSpecEndpoints tries the candidates generated relative to the
\* current path first, then the root-level well-known endpoints.
urlsToTry == generateSpecUrls
ROOT_SPEC_ENDPOINTS == [i \in 1..MaxRoot |-> RootUrl(i)]
ProbeOrder == urlsToTry \o ROOT_SPEC_ENDPOINTS

\* The spec URLs: a page may embed one of the candidates or another URL.
SpecUrls == {ProbeOrder[i] : i \in 1..Len(ProbeOrder)} \cup {EmbeddedUrl}

\* resolveUrl against the page URL: an absolute URL is its own resolution.
\* The first definition leaves the reference as the page wrote it.
resolveUrl_AsWritten(url) == url
resolveUrl(url) == IF url = EmbeddedReference THEN EmbeddedUrl ELSE url

\* detectSwagger: match is what the first specUrlPattern captured.
SwaggerDetectionResult(isSwagger, match) ==
    [isSwagger |-> isSwagger, match |-> match,
     specUrl |-> IF match = NoUrl THEN NoUrl ELSE resolveUrl(match)]
NoSwagger == SwaggerDetectionResult(FALSE, NoUrl)

SmartFetchResult(success, content, contentType, method, specUrl) ==
    [success |-> success, content |-> content, contentType |-> contentType,
     method |-> method, specUrl |-> specUrl]

NoFetchResult == SmartFetchResult(FALSE, Null, "none", "none", NoUrl)

\* The catch block of smartFetch.
CaughtFailure == SmartFetchResult(FALSE, Null, "unknown", "direct", NoUrl)

DEFAULT_OPTIONS ==
    [tryOpenApiSpec |-> TRUE, useHeadlessFallback |-> TRUE,
     probeCommonEndpoints |-> TRUE]

SmartFetchOptions ==
    [tryOpenApiSpec : BOOLEAN, useHeadlessFallback : BOOLEAN,
     probeCommonEndpoints : BOOLEAN]

\* What client.get(url) can answer in fetchWithHttp: a rejection, an object
\* (a valid spec that openApiToMarkdown renders, renders to "" or chokes on,
\* or some other JSON), or a string that detectContentType classifies.
DirectAnswers ==
    {"reject", "spec", "specRendersEmpty", "specThrows", "jsonObject",
     "jsonString", "htmlShell", "htmlPage", "markdown", "text", "emptyString"}

\* fetchWithHttp for an answer that does not reject or throw.
fetchWithHttp(answer) ==
    CASE answer = "spec" ->
            SmartFetchResult(TRUE, "spec markdown", "openapi", "direct", NoUrl)
      [] answer = "specRendersEmpty" ->
            SmartFetchResult(TRUE, "json dump", "openapi", "direct", NoUrl)
      [] answer = "jsonObject" ->
            SmartFetchResult(TRUE, "json dump", "json", "direct", NoUrl)
      [] answer = "jsonString" ->
            SmartFetchResult(TRUE, "body", "json", "direct", NoUrl)
      [] answer \in {"htmlShell", "htmlPage"} ->
            SmartFetchResult(TRUE, "body", "html", "direct", NoUrl)
      [] answer = "markdown" ->
            SmartFetchResult(TRUE, "body", "markdown", "direct", NoUrl)
      [] answer = "text" ->
            SmartFetchResult(TRUE, "body", "text", "direct", NoUrl)
      [] OTHER ->
            SmartFetchResult(TRUE, "", "text", "direct", NoUrl)

\* looksLikeSpa of the fetched HTML.
looksLikeSpa(answer) == answer = "htmlShell"

\* Where smartFetch goes once the Swagger extraction did not succeed (or was
\* switched off), and once the headless render did not succeed.
AfterSwagger_AlwaysHeadless == "headless"

AfterSwagger == IF opts.useHeadlessFallback THEN "headless" ELSE "fallback"
AfterDirect == IF opts.tryOpenApiSpec THEN "detect" ELSE AfterSwagger

FetchIdle ==
    /\ entry = "none" /\ useSmartFetch = TRUE /\ opts = DEFAULT_OPTIONS
    /\ fpc = "idle"
    /\ httpResult = NoFetchResult
    /\ detection = NoSwagger
    /\ probeIdx = 0
    /\ sfResult = NoFetchResult
    /\ fdResult = [kind |-> "none", content |-> Null]
    /\ docGets = 0
    /\ specGets = << >>
    /\ specBodies = << >>
    /\ heads = << >>
    /\ headAnswers = << >>
    /\ log = << >>

\* fetchDocument up to its first request: with useSmartFetch it awaits
\* smartFetch, otherwise it goes to the traditional request.
fetchDocument_enter ==
    /\ fpc = "fetchDocument"
    /\ fpc' = IF useSmartFetch THEN "smartFetch" ELSE "traditional"
    /\ UNCHANGED <<entry, useSmartFetch, opts, httpResult, detection, probeIdx,
                   sfResult, fdResult, docGets, specGets, specBodies, heads, headAnswers, log>>
    /\ UNCHANGED <<singletonVars, renderVars>>
    /\ UNCHANGED pureVars

\* Step 1 of smartFetch: fetchWithHttp.  A rejected request, or a spec
\* object openApiToMarkdown throws on, lands in the catch block of smartFetch.
\* A result that is not HTML, or HTML that does not look like a client-side
\* shell, is returned as it is.
smartFetch_direct ==
    /\ fpc = "smartFetch"
    /\ getHttpClient(Main)
    /\ docGets' = docGets + 1
    /\ \E answer \in DirectAnswers :
          IF answer \in {"reject", "specThrows"}
             THEN /\ sfResult' = CaughtFailure
                  /\ fpc' = "returned"
                  /\ log' = log \o <<"direct", "direct:threw">>
                  /\ UNCHANGED httpResult
             ELSE /\ httpResult' = fetchWithHttp(answer)
                  /\ IF httpResult'.contentType # "html" \/ ~looksLikeSpa(answer)
                        THEN /\ sfResult' = httpResult'
                             /\ fpc' = "returned"
                             /\ log' = log \o <<"direct", "direct:final">>
                        ELSE /\ fpc' = AfterDirect
                             /\ log' = log \o <<"direct", "direct:shell">>
                             /\ UNCHANGED sfResult
    /\ UNCHANGED <<entry, useSmartFetch, opts, detection, probeIdx, fdResult,
                   specGets, specBodies, heads, headAnswers>>
    /\ UNCHANGED <<puppeteerAvailable, puppeteerModule, installed, importRuns,
                   apc, aret>>
    /\ UNCHANGED renderVars
    /\ UNCHANGED pureVars

\* trySwaggerExtraction up to its first await: detectSwagger on the HTML.
trySwaggerExtraction_detect ==
    /\ fpc = "detect"
    /\ \E d \in {SwaggerDetectionResult(is, m) :
                    is \in BOOLEAN,
                    m \in SpecUrls \cup {EmbeddedReference, NoUrl}} :
          /\ ~d.isSwagger => d.specUrl = NoUrl
          /\ detection' = d
          /\ IF ~d.isSwagger
                THEN /\ fpc' = AfterSwagger
                     /\ log' = log \o <<"swagger", "swagger:failed">>
                ELSE /\ log' = Append(log, "swagger")
                     /\ fpc' = IF d.specUrl # NoUrl THEN "embedded"
                               ELSE IF opts.probeCommonEndpoints THEN "probe"
                               ELSE "notFound"
    /\ probeIdx' = 1
    /\ UNCHANGED <<entry, useSmartFetch, opts, httpResult, sfResult, fdResult,
                   docGets, specGets, specBodies, heads, headAnswers>>
    /\ UNCHANGED <<singletonVars, renderVars>>
    /\ UNCHANGED pureVars

\* What fetchOpenApiSpec followed by isValidOpenApiSpec and openApiToMarkdown
\* can come to: no object (the request failed), an object that is no valid
\* spec (the _rawYaml wrapper included), a valid spec that renders, one that
\* renders to the empty string, one that makes openApiToMarkdown throw.
SpecAnswers == {"none", "invalid", "valid", "validRendersEmpty", "validThrows"}

\* fetchOpenApiSpec requested url (specGets records the request) and the
\* spec came to answer; next is where
\* trySwaggerExtraction goes when the spec is not usable.  openApiToMarkdown
\* is called outside any try of trySwaggerExtraction: its exception is caught
\* by smartFetch.
useSpec(url, answer, next) ==
    /\ specGets' = Append(specGets, url)
    /\ specBodies' = Append(specBodies, answer)
    /\ CASE answer \in {"valid", "validRendersEmpty"} ->
              /\ sfResult' = SmartFetchResult(TRUE,
                                 IF answer = "valid" THEN "spec markdown" ELSE "",
                                 "openapi", "openapi_spec", url)
              /\ fpc' = "returned"
              /\ log' = Append(log, "swagger:ok")
         [] answer = "validThrows" ->
              /\ sfResult' = CaughtFailure
              /\ fpc' = "returned"
              /\ log' = Append(log, "swagger:threw")
         [] OTHER ->
              /\ fpc' = next
              /\ UNCHANGED <<sfResult, log>>

trySwaggerExtraction_embedded ==
    /\ fpc = "embedded"
    /\ \E answer \in SpecAnswers :
          useSpec(detection.specUrl, answer,
                  IF opts.probeCommonEndpoints THEN "probe" ELSE "notFound")
    /\ UNCHANGED <<entry, useSmartFetch, opts, httpResult, detection, probeIdx,
                   fdResult, docGets, heads, headAnswers>>
    /\ UNCHANGED <<singletonVars, renderVars>>
    /\ UNCHANGED pureVars

\* The for...of loops of probeCommonSpecEndpoints move to the next candidate
\* after each rejected check.  The first definition stays on the candidate.
NextCandidate_Same(i) == i
NextCandidate(i) == i + 1

\* One round of the loops of probeCommonSpecEndpoints: tryFetchSpec issues a
\* HEAD request; the candidate is returned when the answer is a 200 whose
\* content type or file name says JSON or YAML.
probeCommonSpecEndpoints ==
    /\ fpc = "probe"
    /\ probeIdx <= Len(ProbeOrder)
    /\ heads' = Append(heads, ProbeOrder[probeIdx])
    /\ \E accepted \in BOOLEAN :
          /\ headAnswers' = Append(headAnswers, accepted)
          /\ IF accepted
                THEN /\ fpc' = "probed"
                     /\ UNCHANGED probeIdx
                ELSE /\ probeIdx' = NextCandidate(probeIdx)
                     /\ fpc' = IF probeIdx = Len(ProbeOrder) THEN "notFound"
                               ELSE "probe"
    /\ UNCHANGED <<entry, useSmartFetch, opts, httpResult, detection, sfResult,
                   fdResult, docGets, specGets, specBodies, log>>
    /\ UNCHANGED <<singletonVars, renderVars>>
    /\ UNCHANGED pureVars

trySwaggerExtraction_probed ==
    /\ fpc = "probed"
    /\ \E answer \in SpecAnswers :
          useSpec(ProbeOrder[probeIdx], answer, "notFound")
    /\ UNCHANGED <<entry, useSmartFetch, opts, httpResult, detection, probeIdx,
                   fdResult, docGets, heads, headAnswers>>
    /\ UNCHANGED <<singletonVars, renderVars>>
    /\ UNCHANGED pureVars

\* trySwaggerExtraction returns success = false ("Spec OpenAPI não encontrada").
trySwaggerExtraction_notFound ==
    /\ fpc = "notFound"
    /\ fpc' = AfterSwagger
    /\ log' = Append(log, "swagger:failed")
    /\ UNCHANGED <<entry, useSmartFetch, opts, httpResult, detection, probeIdx,
                   sfResult, fdResult, docGets, specGets, specBodies, heads, headAnswers>>
    /\ UNCHANGED <<singletonVars, renderVars>>
    /\ UNCHANGED pureVars

\* tryHeadlessRender up to its first await: isPuppeteerAvailable.
tryHeadlessRender_enter ==
    /\ fpc = "headless"
    /\ fpc' = "available"
    /\ log' = Append(log, "headless")
    /\ apc' = [apc EXCEPT ![Main] = "check"]
    /\ aret' = [aret EXCEPT ![Main] = Null]
    /\ UNCHANGED <<entry, useSmartFetch, opts, httpResult, detection, probeIdx,
                   sfResult, fdResult, docGets, specGets, specBodies, heads, headAnswers>>
    /\ UNCHANGED <<httpClientInstance, clientCreates, puppeteerAvailable,
                   puppeteerModule, installed, importRuns, cret>>
    /\ UNCHANGED renderVars
    /\ UNCHANGED pureVars

\* isPuppeteerAvailable returned: without puppeteer tryHeadlessRender fails,
\* with it renderSwaggerPage is called.
tryHeadlessRender_available ==
    /\ fpc = "available"
    /\ apc[Main] = "done"
    /\ IF aret[Main] # "true"
          THEN /\ fpc' = "fallback"
               /\ log' = Append(log, "headless:failed")
               /\ apc' = [apc EXCEPT ![Main] = "idle"]
               /\ UNCHANGED <<aret, rfn, rpc, rstep, ropts, browser, rpending,
                              rresult>>
          ELSE /\ fpc' = "render"
               /\ log' = Append(log, "render")
               /\ renderEnter("renderSwaggerPage", NoRenderOptions)
    /\ UNCHANGED <<launches, closeCalls, closeFailed>>
    /\ UNCHANGED <<entry, useSmartFetch, opts, httpResult, detection, probeIdx,
                   sfResult, fdResult, docGets, specGets, specBodies, heads, headAnswers>>
    /\ UNCHANGED <<httpClientInstance, clientCreates, puppeteerAvailable,
                   puppeteerModule, installed, importRuns, cret>>
    /\ UNCHANGED pureVars

\* renderSwaggerPage returned: a result without success or without text makes
\* tryHeadlessRender fail, otherwise its text is the content.
tryHeadlessRender_rendered ==
    /\ fpc = "render"
    /\ rpc = "returned"
    /\ IF ~rresult.success \/ rresult.text \in {Null, ""}
          THEN /\ fpc' = "fallback"
               /\ log' = Append(log, "headless:failed")
               /\ UNCHANGED sfResult
          ELSE /\ sfResult' = SmartFetchResult(TRUE, rresult.text, "text",
                                               "headless", NoUrl)
               /\ fpc' = "returned"
               /\ log' = Append(log, "headless:ok")
    /\ UNCHANGED <<entry, useSmartFetch, opts, httpResult, detection, probeIdx,
                   fdResult, docGets, specGets, specBodies, heads, headAnswers>>
    /\ UNCHANGED <<singletonVars, renderVars>>
    /\ UNCHANGED pureVars

\* Step 4 of smartFetch: the original HTML result is returned.
smartFetch_fallback_ReturnsFailure ==
    /\ fpc = "fallback"
    /\ sfResult' = CaughtFailure
    /\ fpc' = "returned"
    /\ log' = Append(log, "fallback")
    /\ UNCHANGED <<entry, useSmartFetch, opts, httpResult, detection, probeIdx,
                   fdResult, docGets, specGets, specBodies, heads, headAnswers>>
    /\ UNCHANGED <<singletonVars, renderVars>>
    /\ UNCHANGED pureVars

smartFetch_fallback ==
    /\ fpc = "fallback"
    /\ sfResult' = httpResult
    /\ fpc' = "returned"
    /\ log' = Append(log, "fallback")
    /\ UNCHANGED <<entry, useSmartFetch, opts, httpResult, detection, probeIdx,
                   fdResult, docGets, specGets, specBodies, heads, headAnswers>>
    /\ UNCHANGED <<singletonVars, renderVars>>
    /\ UNCHANGED pureVars

\* fetchDocument after smartFetch: a successful result with content is
\* returned, anything else sends it to the traditional request.
fetchDocument_afterSmartFetch_AlwaysTraditional ==
    /\ fpc = "returned"
    /\ entry = "fetchDocument"
    /\ fpc' = "traditional"
    /\ UNCHANGED <<entry, useSmartFetch, opts, httpResult, detection, probeIdx,
                   sfResult, fdResult, docGets, specGets, specBodies, heads, headAnswers, log>>
    /\ UNCHANGED <<singletonVars, renderVars>>
    /\ UNCHANGED pureVars

fetchDocument_afterSmartFetch ==
    /\ fpc = "returned"
    /\ entry = "fetchDocument"
    /\ IF sfResult.success /\ sfResult.content \notin {Null, ""}
          THEN /\ fdResult' = [kind |-> "value", content |-> sfResult.content]
               /\ fpc' = "done"
          ELSE /\ fpc' = "traditional"
               /\ UNCHANGED fdResult
    /\ UNCHANGED <<entry, useSmartFetch, opts, httpResult, detection, probeIdx,
                   sfResult, docGets, specGets, specBodies, heads, headAnswers, log>>
    /\ UNCHANGED <<singletonVars, renderVars>>
    /\ UNCHANGED pureVars

\* The traditional method of fetchDocument: one more client.get(url), whose
\* rejection fetchDocument does not catch.
fetchDocument_traditional ==
    /\ fpc = "traditional"
    /\ getHttpClient(Main)
    /\ docGets' = docGets + 1
    /\ \E answer \in {"reject", "string", "object"} :
          fdResult' = CASE answer = "reject" -> [kind |-> "throw", content |-> Null]
                        [] answer = "string" -> [kind |-> "value", content |-> "body"]
                        [] OTHER -> [kind |-> "value", content |-> "json dump"]
    /\ fpc' = "done"
    /\ UNCHANGED <<entry, useSmartFetch, opts, httpResult, detection, probeIdx,
                   sfResult, specGets, specBodies, heads, headAnswers, log>>
    /\ UNCHANGED <<puppeteerAvailable, puppeteerModule, installed, importRuns,
                   apc, aret>>
    /\ UNCHANGED renderVars
    /\ UNCHANGED pureVars

(***************************************************************************)
(* searchInDocs.  A chunk is known by its index (from 0, as in the code)   *)
(* and its length; its relevance score is given.                           *)
(***************************************************************************)
MAX_CONTEXT_SIZE == 3000

\* Length of the "\n\n---\n\n" getExpandedContext joins the chunks with.
ContextSeparatorLength == 7

ChunkLengths == {100, 1500}
Scores == {0, 1, 2}

\* chunks[i] of the code, for an index from 0.
ChunkDefined(cs, i) == i >= 0 /\ i < Len(cs)
ChunkLength(cs, i) == cs[i + 1]

\* getExpandedContext: the indices of the chunks joined, in order, and the
\* length of the joined string.  The first definition tries the chunk that
\* follows before the one that precedes.
getExpandedContext_NextFirst(cs, targetIndex) ==
    IF ~ChunkDefined(cs, targetIndex)
       THEN [parts |-> << >>, length |-> 0]
       ELSE LET targetSize == ChunkLength(cs, targetIndex)
                hasNext == /\ ChunkDefined(cs, targetIndex + 1)
                           /\ targetSize + ChunkLength(cs, targetIndex + 1)
                                 < MAX_CONTEXT_SIZE
                totalSize == IF hasNext
                                THEN targetSize + ChunkLength(cs, targetIndex + 1)
                                ELSE targetSize
                hasPrev == /\ ChunkDefined(cs, targetIndex - 1)
                           /\ totalSize + ChunkLength(cs, targetIndex - 1)
                                 < MAX_CONTEXT_SIZE
                joined == IF hasPrev
                             THEN totalSize + ChunkLength(cs, targetIndex - 1)
                             ELSE totalSize
                parts == (IF hasPrev THEN <<targetIndex - 1>> ELSE << >>)
                         \o <<targetIndex>>
                         \o (IF hasNext THEN <<targetIndex + 1>> ELSE << >>)
            IN  [parts |-> parts,
                 length |-> joined + ContextSeparatorLength * (Len(parts) - 1)]
getExpandedContext(cs, targetIndex) ==
    IF ~ChunkDefined(cs, targetIndex)
       THEN [parts |-> << >>, length |-> 0]
       ELSE LET targetSize == ChunkLength(cs, targetIndex)
                hasPrev == /\ ChunkDefined(cs, targetIndex - 1)
                           /\ targetSize + ChunkLength(cs, targetIndex - 1)
                                 < MAX_CONTEXT_SIZE
                totalSize == IF hasPrev
                                THEN targetSize + ChunkLength(cs, targetIndex - 1)
                                ELSE targetSize
                hasNext == /\ ChunkDefined(cs, targetIndex + 1)
                           /\ totalSize + ChunkLength(cs, targetIndex + 1)
                                 < MAX_CONTEXT_SIZE
                joined == IF hasNext
                             THEN totalSize + ChunkLength(cs, targetIndex + 1)
                             ELSE totalSize
                parts == (IF hasPrev THEN <<targetIndex - 1>> ELSE << >>)
                         \o <<targetIndex>>
                         \o (IF hasNext THEN <<targetIndex + 1>> ELSE << >>)
            IN  [parts |-> parts,
                 length |-> joined + ContextSeparatorLength * (Len(parts) - 1)]

\* One step of the stable sort by descending score: index c goes after every
\* ranked index whose score is not lower.  In the first definition it goes
\* before the ranked indices of its own score, as in a sort that is not
\* stable.
InsertByScore_TiesReversed(ranked, c, sc) ==
    LET k == Cardinality({i \in DOMAIN ranked : sc[ranked[i] + 1] > sc[c + 1]})
    IN  SubSeq(ranked, 1, k) \o <<c>> \o SubSeq(ranked, k + 1, Len(ranked))

InsertByScore(ranked, c, sc) ==
    LET k == Cardinality({i \in DOMAIN ranked : sc[ranked[i] + 1] >= sc[c + 1]})
    IN  SubSeq(ranked, 1, k) \o <<c>> \o SubSeq(ranked, k + 1, Len(ranked))

\* scoredChunks.filter(score > 0).sort((a, b) => b.score - a.score), over the
\* first n chunks.
RECURSIVE RankChunks(_, _)
RankChunks(sc, n) ==
    IF n = 0 THEN << >>
    ELSE IF sc[n] > 0 THEN InsertByScore(RankChunks(sc, n - 1), n - 1, sc)
    ELSE RankChunks(sc, n - 1)

\* The test that ends the loop of selectBestResults, and the test that lets
\* one result more through.
ReachedMaximum_OneLate(count, max) == count > max
ReachedMaximum(count, max) == count >= max

\* The indices selectBestResults marks for a selected chunk.
markUsed_IndexOnly(used, index, length) ==
    used \cup {index}

markUsed(used, index, length) ==
    used \cup {index}
         \cup (IF index > 0 THEN {index - 1} ELSE {})
         \cup (IF index < length - 1 THEN {index + 1} ELSE {})

NoSearchResult == [results |-> << >>, totalChunks |-> 0, matchedChunks |-> 0]

SearchIdle ==
    /\ chunks = << >> /\ scores = << >> /\ maxResults = 0
    /\ spc = "idle"
    /\ relevantChunks = << >> /\ loopIdx = 0 /\ usedIndices = {}
    /\ results = << >> /\ searchResult = NoSearchResult

\* Steps 1 to 4 of searchInDocs and the entry of selectBestResults.
searchInDocs_rank ==
    /\ spc = "called"
    /\ relevantChunks' = RankChunks(scores, Len(scores))
    /\ loopIdx' = 1
    /\ usedIndices' = {}
    /\ results' = << >>
    /\ spc' = "select"
    /\ UNCHANGED <<chunks, scores, maxResults, searchResult>>
    /\ UNCHANGED notSearchVars

\* One round of the for loop of selectBestResults: the loop ends when the
\* ranked chunks are exhausted or maxResults is reached, a used index is
\* skipped, any other is marked with its neighbours and its context pushed.
selectBestResults_loop ==
    /\ spc = "select"
    /\ IF \/ loopIdx > Len(relevantChunks)
          \/ ReachedMaximum(Len(results), maxResults)
          THEN /\ spc' = "return"
               /\ UNCHANGED <<loopIdx, usedIndices, results>>
          ELSE LET index == relevantChunks[loopIdx]
               IN  /\ loopIdx' = loopIdx + 1
                   /\ spc' = "select"
                   /\ IF index \in usedIndices
                         THEN UNCHANGED <<usedIndices, results>>
                         ELSE /\ usedIndices' = markUsed(usedIndices, index,
                                                         Len(chunks))
                              /\ results' = Append(results,
                                    [index |-> index,
                                     context |-> getExpandedContext(chunks, index)])
    /\ UNCHANGED <<chunks, scores, maxResults, relevantChunks, searchResult>>
    /\ UNCHANGED notSearchVars

searchInDocs_return ==
    /\ spc = "return"
    /\ searchResult' = [results |-> [i \in DOMAIN results |-> results[i].context],
                        totalChunks |-> Len(chunks),
                        matchedChunks |-> Len(relevantChunks)]
    /\ spc' = "done"
    /\ UNCHANGED <<chunks, scores, maxResults, relevantChunks, loopIdx,
                   usedIndices, results>>
    /\ UNCHANGED notSearchVars

(***************************************************************************)
(* Text of a document.  A text is a sequence of tokens, each with its      *)
(* length in characters: a sentence (a run of characters without a line    *)
(* break or a sentence boundary inside, ending in . ! or ?), a space, a    *)
(* line break, a paragraph break (two line breaks), a horizontal rule      *)
(* (---), a header prefix ("# "), a code fence (```), a list bullet        *)
(* ("- ").  id tells the tokens of one document apart.  The documents      *)
(* given have no two whitespace tokens in a row, so a whitespace token is  *)
(* a whole run of whitespace.                                              *)
(***************************************************************************)
MAX_CHUNK_SIZE == 2000
MIN_CHUNK_SIZE == 10

Token(t, n, id) == [t |-> t, n |-> n, id |-> id]
Space == Token("sp", 1, 0)
LineBreak == Token("nl", 1, 0)
ParagraphBreak == Token("pb", 2, 0)
Sentence(n, id) == Token("s", n, id)
HorizontalRule(id) == Token("hr", 3, id)
HeaderPrefix(id) == Token("hd", 2, id)
Fence(id) == Token("fence", 3, id)
Bullet(id) == Token("bul", 2, id)

IsSpace(tok) == tok.t \in {"sp", "nl", "pb"}

\* text.length
RECURSIVE TextLength(_)
TextLength(text) ==
    IF text = << >> THEN 0 ELSE Head(text).n + TextLength(Tail(text))

\* !text.trim()
IsBlank(text) == \A i \in DOMAIN text : IsSpace(text[i])

\* text.trim()
trim(text) ==
    IF IsBlank(text) THEN << >>
    ELSE LET solid == {i \in DOMAIN text : ~IsSpace(text[i])}
             first == CHOOSE i \in solid : \A j \in solid : i <= j
             last == CHOOSE i \in solid : \A j \in solid : j <= i
         IN  SubSeq(text, first, last)

\* The k-th smallest position of a set of positions.
NthOf(positions, k) ==
    CHOOSE x \in positions : Cardinality({y \in positions : y < x}) = k - 1

\* String.prototype.split on a pattern that consumes its match: the pieces
\* between the matched positions, empty ones included.
SplitRemoving(text, matches) ==
    LET n == Cardinality(matches)
    IN  [k \in 1..(n + 1) |->
            SubSeq(text,
                   IF k = 1 THEN 1 ELSE NthOf(matches, k - 1) + 1,
                   IF k = n + 1 THEN Len(text) ELSE NthOf(matches, k) - 1)]

\* String.prototype.split on a lookahead: the text is cut before each matched
\* position (a match at the very start cuts nothing).
SplitBefore(text, matches) ==
    LET cuts == matches \ {1}
        n == Cardinality(cuts)
    IN  [k \in 1..(n + 1) |->
            SubSeq(text,
                   IF k = 1 THEN 1 ELSE NthOf(cuts, k - 1),
                   IF k = n + 1 THEN Len(text) ELSE NthOf(cuts, k) - 1)]

\* .filter((chunk) => chunk.trim())
NonBlank(pieces) == SelectSeq(pieces, LAMBDA piece : ~IsBlank(piece))

LineStart(text, i) == i = 1 \/ text[i - 1].t \in {"nl", "pb"}
LineEnd(text, i) == i = Len(text) \/ text[i + 1].t \in {"nl", "pb"}

\* SEPARATION_PATTERNS: where each pattern matches in a text.
headers(text) ==
    {i \in DOMAIN text : /\ text[i].t = "hd"
                         /\ LineStart(text, i)
                         /\ \E j \in (i + 1)..Len(text) : ~IsSpace(text[j])}
horizontalRules(text) ==
    {i \in DOMAIN text : text[i].t = "hr" /\ LineStart(text, i) /\ LineEnd(text, i)}
paragraphs(text) == {i \in DOMAIN text : text[i].t = "pb"}
sentences(text) ==
    {i \in DOMAIN text : IsSpace(text[i]) /\ i > 1 /\ text[i - 1].t = "s"}

\* The for loop of splitBySentences and what follows it.
RECURSIVE PackSentences(_, _, _, _)
PackSentences(parts, k, currentChunk, result) ==
    IF k > Len(parts)
       THEN IF ~IsBlank(currentChunk) THEN Append(result, trim(currentChunk))
            ELSE result
       ELSE LET sentence == parts[k]
                wouldExceed ==
                    /\ TextLength(currentChunk \o sentence) > MAX_CHUNK_SIZE
                    /\ currentChunk # << >>
            IN  IF wouldExceed
                   THEN PackSentences(parts, k + 1, sentence,
                                      Append(result, trim(currentChunk)))
                   ELSE PackSentences(parts, k + 1,
                           currentChunk
                              \o (IF currentChunk # << >> THEN <<Space>> ELSE << >>)
                              \o sentence,
                           result)

splitBySentences(chunk) ==
    PackSentences(SplitRemoving(chunk, sentences(chunk)), 1, << >>, << >>)

\* refineChunks, from the k-th chunk on.
RECURSIVE refineChunks(_, _)
refineChunks(pieces, k) ==
    IF k > Len(pieces) THEN << >>
    ELSE LET chunk == pieces[k]
             subChunks == NonBlank(SplitRemoving(chunk, paragraphs(chunk)))
         IN  (IF TextLength(chunk) <= MAX_CHUNK_SIZE THEN <<chunk>>
              ELSE IF Len(subChunks) > 1 THEN subChunks
              ELSE splitBySentences(chunk))
             \o refineChunks(pieces, k + 1)

\* Steps 1 to 4 of splitMarkdownDocument.
splitMarkdownRefined(text) ==
    LET headerSplit == NonBlank(SplitBefore(text, headers(text)))
        separatorSplit == NonBlank(SplitRemoving(text, horizontalRules(text)))
        paragraphSplit == NonBlank(SplitRemoving(text, paragraphs(text)))
    IN  refineChunks(IF Len(headerSplit) > 1 THEN headerSplit
                     ELSE IF Len(separatorSplit) > 1 THEN separatorSplit
                     ELSE paragraphSplit, 1)

\* .filter((chunk) => chunk.trim().length > MIN_CHUNK_SIZE)
minSizeFilter(pieces) ==
    SelectSeq(pieces, LAMBDA chunk : TextLength(trim(chunk)) > MIN_CHUNK_SIZE)

(***************************************************************************)
(* HTML documents.  An HTML document is a sequence of elements, each a tag *)
(* around a text: a header (h1..h6), a paragraph, a pre block, a list item *)
(* or a script.                                                            *)
(***************************************************************************)
HtmlTags == {"h", "p", "pre", "li", "script"}

Element(tag, text) == [tag |-> tag, text |-> text]

\* Characters of the opening and closing tag of an element.
TagLength(tag) ==
    CASE tag = "h" -> 9
      [] tag = "p" -> 7
      [] tag = "pre" -> 11
      [] tag = "li" -> 9
      [] OTHER -> 17

\* document.length of an HTML document.
RECURSIVE HtmlLength(_)
HtmlLength(els) ==
    IF els = << >> THEN 0
    ELSE TagLength(Head(els).tag) + TextLength(Head(els).text)
         + HtmlLength(Tail(els))

RECURSIVE Flatten(_)
Flatten(texts) ==
    IF texts = << >> THEN << >> ELSE Head(texts) \o Flatten(Tail(texts))

cleanHtml(els) == SelectSeq(els, LAMBDA e : e.tag # "script")

\* normalizeWhitespace, from position i on.  A run of whitespace without a
\* line break becomes one space and a run with one line break becomes that
\* line break.  A run with two or more line breaks disappears: the third
\* replacement, /^\s+|\s+$/gm, takes the whitespace up to the last position
\* that stands before a line break and then, from the start of the line
\* that follows, the rest of the run.
RECURSIVE CollapseWhitespace(_, _)
CollapseWhitespace(text, i) ==
    IF i > Len(text) THEN << >>
    ELSE IF ~IsSpace(text[i]) THEN <<text[i]>> \o CollapseWhitespace(text, i + 1)
    ELSE LET j == CHOOSE j \in i..Len(text) :
                     /\ \A k \in i..j : IsSpace(text[k])
                     /\ j = Len(text) \/ ~IsSpace(text[j + 1])
             breaks == Cardinality({k \in i..j : text[k].t = "nl"})
                       + 2 * Cardinality({k \in i..j : text[k].t = "pb"})
         IN  (IF breaks >= 2 THEN << >>
              ELSE IF breaks = 1 THEN <<LineBreak>>
              ELSE <<Space>>)
             \o CollapseWhitespace(text, j + 1)

normalizeWhitespace(text) == trim(CollapseWhitespace(text, 1))

\* HTML_PATTERNS.blockTags: the closing tags replaced by a line break.
BlockTags == {"p", "li"}

\* extractTextContent of a run of elements.
extractTextContent(els) ==
    normalizeWhitespace(
        Flatten([i \in DOMAIN els |->
                    els[i].text \o (IF els[i].tag \in BlockTags
                                       THEN <<LineBreak>> ELSE << >>)]))

extractHeaderSections(els) ==
    SelectSeq(SplitBefore(els, {i \in DOMAIN els : els[i].tag = "h"}),
              LAMBDA piece : piece # << >>)

\* The content of a code section: the trimmed text between two fences.
FencedCode(text) ==
    <<Fence(0), LineBreak>> \o trim(text) \o <<LineBreak, Fence(0)>>

extractSemanticElements(els) ==
    LET code == SelectSeq(els, LAMBDA e : e.tag = "pre" /\ ~IsBlank(e.text))
        remainingHtml == SelectSeq(els, LAMBDA e : e.tag # "pre")
        paras == SelectSeq(remainingHtml,
                           LAMBDA e : e.tag = "p" /\ ~IsBlank(e.text))
        sections == [i \in DOMAIN code |-> FencedCode(code[i].text)]
                    \o [i \in DOMAIN paras |-> normalizeWhitespace(paras[i].text)]
        generalText == extractTextContent(remainingHtml)
    IN  IF sections # << >> THEN sections
        ELSE IF ~IsBlank(generalText) THEN <<generalText>>
        ELSE << >>

extractSections(els) ==
    LET headerChunks == extractHeaderSections(els)
    IN  IF Len(headerChunks) > 1
           THEN NonBlank([i \in DOMAIN headerChunks |->
                             extractTextContent(headerChunks[i])])
           ELSE extractSemanticElements(els)

\* The for loop of groupTextIntoChunks and what follows it.
RECURSIVE PackTexts(_, _, _, _)
PackTexts(texts, k, currentChunk, result) ==
    IF k > Len(texts)
       THEN IF ~IsBlank(currentChunk) THEN Append(result, trim(currentChunk))
            ELSE result
       ELSE LET separator == IF currentChunk # << >> THEN <<Space>> ELSE << >>
                wouldExceed ==
                    /\ TextLength(currentChunk \o separator \o texts[k])
                          > MAX_CHUNK_SIZE
                    /\ currentChunk # << >>
            IN  IF wouldExceed
                   THEN PackTexts(texts, k + 1, texts[k],
                                  Append(result, trim(currentChunk)))
                   ELSE PackTexts(texts, k + 1,
                                  currentChunk \o separator \o texts[k], result)

groupTextIntoChunks(texts) == PackTexts(texts, 1, << >>, << >>)

subdivideContent(content) ==
    LET paras == NonBlank(SplitRemoving(content, paragraphs(content)))
    IN  IF Len(paras) > 1 THEN groupTextIntoChunks(paras)
        ELSE groupTextIntoChunks(
                NonBlank(SplitRemoving(content, sentences(content))))

\* The for loop of groupSectionsIntoChunks and what follows it.
RECURSIVE PackSections(_, _, _, _)
PackSections(sections, k, currentChunk, result) ==
    IF k > Len(sections)
       THEN IF ~IsBlank(currentChunk) THEN Append(result, trim(currentChunk))
            ELSE result
       ELSE LET content == sections[k]
                separator == IF currentChunk # << >> THEN <<ParagraphBreak>>
                             ELSE << >>
                wouldExceed ==
                    TextLength(currentChunk \o separator \o content)
                       > MAX_CHUNK_SIZE
            IN  IF TextLength(content) > MAX_CHUNK_SIZE
                   THEN PackSections(sections, k + 1,
                           IF ~IsBlank(currentChunk) THEN << >> ELSE currentChunk,
                           (IF ~IsBlank(currentChunk)
                               THEN Append(result, trim(currentChunk))
                               ELSE result)
                           \o subdivideContent(content))
                ELSE IF wouldExceed /\ ~IsBlank(currentChunk)
                   THEN PackSections(sections, k + 1, content,
                                     Append(result, trim(currentChunk)))
                ELSE PackSections(sections, k + 1,
                                  currentChunk \o separator \o content, result)

groupSectionsIntoChunks(sections) == PackSections(sections, 1, << >>, << >>)

\* htmlToSimpleMarkdown: what each element is rewritten to, then
\* normalizeWhitespace.
htmlToSimpleMarkdown(els) ==
    LET cleaned == cleanHtml(els)
        rewritten(e) ==
            CASE e.tag = "h" ->
                    <<LineBreak, HeaderPrefix(0)>> \o e.text \o <<LineBreak>>
              [] e.tag = "pre" ->
                    <<LineBreak, Fence(0), LineBreak>> \o e.text
                       \o <<LineBreak, Fence(0), LineBreak>>
              [] e.tag = "li" -> <<Bullet(0)>> \o e.text \o <<LineBreak>>
              [] OTHER -> <<LineBreak>> \o e.text \o <<LineBreak>>
    IN  normalizeWhitespace(
            Flatten([i \in DOMAIN cleaned |-> rewritten(cleaned[i])]))

NoDocument == [format |-> "none", text |-> << >>, elements |-> << >>]

ChunkIdle ==
    /\ document = NoDocument
    /\ cpc = "idle"
    /\ refinedChunks = << >>
    /\ returnedChunks = << >>

\* splitIntoChunks on a text document: splitMarkdownDocument up to its
\* refinement.
splitMarkdownDocument_refine ==
    /\ cpc = "called"
    /\ document.format = "markdown"
    /\ refinedChunks' = splitMarkdownRefined(document.text)
    /\ cpc' = "refined"
    /\ UNCHANGED <<document, returnedChunks>>
    /\ UNCHANGED notChunkVars

\* Step 5 of splitMarkdownDocument.
splitMarkdownDocument_filter ==
    /\ cpc = "refined"
    /\ returnedChunks' = minSizeFilter(refinedChunks)
    /\ cpc' = "done"
    /\ UNCHANGED <<document, refinedChunks>>
    /\ UNCHANGED notChunkVars

\* splitIntoChunks on an HTML document: steps 1 to 3 of splitHtmlIntoChunks.
splitHtmlIntoChunks_group ==
    /\ cpc = "called"
    /\ document.format = "html"
    /\ refinedChunks' =
          groupSectionsIntoChunks(extractSections(cleanHtml(document.elements)))
    /\ cpc' = "grouped"
    /\ UNCHANGED <<document, returnedChunks>>
    /\ UNCHANGED notChunkVars

\* Step 4 of splitHtmlIntoChunks and the test of splitHtmlDocument: at most
\* one chunk for a document longer than MAX_CHUNK_SIZE sends it to the
\* Markdown rendering.
splitHtmlIntoChunks_filter ==
    /\ cpc = "grouped"
    /\ returnedChunks' = minSizeFilter(refinedChunks)
    /\ cpc' = IF /\ Len(returnedChunks') <= 1
                 /\ HtmlLength(document.elements) > MAX_CHUNK_SIZE
                 THEN "toMarkdown" ELSE "done"
    /\ UNCHANGED <<document, refinedChunks>>
    /\ UNCHANGED notChunkVars

\* splitHtmlDocument re-runs splitMarkdownDocument on htmlToSimpleMarkdown.
splitHtmlDocument_toMarkdown ==
    /\ cpc = "toMarkdown"
    /\ refinedChunks' =
          splitMarkdownRefined(htmlToSimpleMarkdown(document.elements))
    /\ cpc' = "refined"
    /\ UNCHANGED <<document, returnedChunks>>
    /\ UNCHANGED notChunkVars

(***************************************************************************)
(* Format detection (format-detector.ts) and the module-level regular      *)
(* expressions with the g flag, whose lastIndex outlives a call.           *)
(* Confidences are in hundredths: 0.3 is 30.  The sums the code forms in   *)
(* floating point compare with its thresholds as the hundredths do.        *)
(***************************************************************************)
\* Offsets at which a pattern can match in a document, and calls in a row.
MaxOffset == 1
MaxCalls == 2

\* The document holds no match of the pattern.
NoMatch == 0 - 1
Offsets == {NoMatch} \cup 0..MaxOffset

GlobalRegexes == {"headerTags", "paragraphTags", "horizontalRules", "allTags"}
FreshRegexes == [re \in GlobalRegexes |-> 0]

\* RegExp.prototype.test of a regex with the g flag: the search starts at
\* lastIndex; a match moves lastIndex behind it, a failure resets it.
\* at is the offset of the document's match (a match is one character long).
RegExpTest(li, re, at) ==
    IF at # NoMatch /\ at >= li[re]
    THEN [found |-> TRUE, lastIndex |-> [li EXCEPT ![re] = at + 1]]
    ELSE [found |-> FALSE, lastIndex |-> [li EXCEPT ![re] = 0]]

\* String.prototype.match and replace with a g regex start at 0 whatever
\* lastIndex is and leave it at 0; split works on a copy of the regex.
StringMatchAll(li, re) == [li EXCEPT ![re] = 0]
StringSplit(li, re) == li

Min(a, b) == IF a < b THEN a ELSE b

\* What a document is to the detector: what each of its tests reads.
\*   json          "valid" starts with { or [ and parses; "invalid" starts
\*                 with one and does not parse; "scalar" parses without
\*                 (a number, a string, true, null); "none" neither
\*   isHtml        HTML_PATTERNS.isHtml matches
\*   tagCount      matches of allTags
\*   headerTag, paragraphTag, horizontalRule   offset of the match
\*   hasHeader, fenced, listItems (more than 2), links, emphasis
JsonKinds == {"none", "invalid", "valid", "scalar"}
TagCounts == {0, 3, 4, 10, 11}
Documents ==
    {d \in [json : JsonKinds, isHtml : BOOLEAN, tagCount : TagCounts,
            headerTag : Offsets, paragraphTag : Offsets,
            hasHeader : BOOLEAN, fenced : BOOLEAN, listItems : BOOLEAN,
            links : BOOLEAN, emphasis : BOOLEAN, horizontalRule : Offsets] :
        \* a document that starts as JSON does not start with an HTML tag
        /\ d.json # "none" => ~d.isHtml
        \* a header or a paragraph element is two tags at least
        /\ d.tagCount = 0 => d.headerTag = NoMatch /\ d.paragraphTag = NoMatch}

FormatDetectionResult(format, confidence) ==
    [format |-> format, confidence |-> confidence]
NoDetection == FormatDetectionResult("none", 0)

checkJson(d) ==
    LET startsWithJsonChar == d.json \in {"valid", "invalid"}
        parses == d.json \in {"valid", "scalar"}
        c0 == IF startsWithJsonChar THEN 30 ELSE 0
        confidence == IF parses THEN c0 + 60
                      ELSE IF startsWithJsonChar THEN 20 ELSE c0
    IN FormatDetectionResult("json", Min(confidence, 100))

\* checkHtml without the two assignments that reset lastIndex.
checkHtml_NoReset(d, li) ==
    LET c1 == IF d.isHtml THEN 50 ELSE 0
        li1 == StringMatchAll(li, "allTags")
        c2 == c1 + (IF d.tagCount > 10 THEN 30
                    ELSE IF d.tagCount > 3 THEN 15 ELSE 0)
        h == RegExpTest(li1, "headerTags", d.headerTag)
        c3 == c2 + (IF h.found THEN 10 ELSE 0)
        p == RegExpTest(h.lastIndex, "paragraphTags", d.paragraphTag)
        c4 == c3 + (IF p.found THEN 10 ELSE 0)
    IN [result |-> FormatDetectionResult("html", Min(c4, 100)),
        lastIndex |-> p.lastIndex]

checkHtml(d, li) ==
    LET c1 == IF d.isHtml THEN 50 ELSE 0
        li1 == StringMatchAll(li, "allTags")
        c2 == c1 + (IF d.tagCount > 10 THEN 30
                    ELSE IF d.tagCount > 3 THEN 15 ELSE 0)
        h == RegExpTest(li1, "headerTags", d.headerTag)
        c3 == c2 + (IF h.found THEN 10 ELSE 0)
        p == RegExpTest(h.lastIndex, "paragraphTags", d.paragraphTag)
        c4 == c3 + (IF p.found THEN 10 ELSE 0)
    IN [result |-> FormatDetectionResult("html", Min(c4, 100)),
        lastIndex |-> [p.lastIndex EXCEPT !["headerTags"] = 0,
                                          !["paragraphTags"] = 0]]

checkMarkdown(d, li) ==
    LET hr == RegExpTest(li, "horizontalRules", d.horizontalRule)
        confidence == (IF d.hasHeader THEN 30 ELSE 0)
                      + (IF d.fenced THEN 25 ELSE 0)
                      + (IF d.listItems THEN 15 ELSE 0)
                      + (IF d.links THEN 15 ELSE 0)
                      + (IF d.emphasis THEN 10 ELSE 0)
                      + (IF hr.found THEN 10 ELSE 0)
    IN [result |-> FormatDetectionResult("markdown", Min(confidence, 100)),
        lastIndex |-> [hr.lastIndex EXCEPT !["horizontalRules"] = 0]]

JsonThreshold == 80
HtmlThreshold == 60
MarkdownThreshold == 50
TextConfidence == 50

\* The comparison of detectDocumentFormat, and the one that admits equality.
Exceeds_OrEqual(confidence, threshold) == confidence >= threshold
Exceeds(confidence, threshold) == confidence > threshold

\* detectDocumentFormat: the result and the regex state it leaves behind.
detectDocumentFormat(d, li) ==
    LET jsonResult == checkJson(d)
        html == checkHtml(d, li)
        markdown == checkMarkdown(d, html.lastIndex)
    IN IF Exceeds(jsonResult.confidence, JsonThreshold)
       THEN [result |-> jsonResult, lastIndex |-> li]
       ELSE IF Exceeds(html.result.confidence, HtmlThreshold)
       THEN html
       ELSE IF Exceeds(markdown.result.confidence, MarkdownThreshold)
       THEN markdown
       ELSE [result |-> FormatDetectionResult("text", TextConfidence),
             lastIndex |-> markdown.lastIndex]

\* ChunkingOptions; forceFormat "none" is an absent forceFormat.
ChunkingOptions ==
    [forceFormat : {"none", "html", "json", "markdown", "text"},
     enableHtmlFallback : BOOLEAN, enableJsonFallback : BOOLEAN]
NoOptions == [forceFormat |-> "none", enableHtmlFallback |-> TRUE,
              enableJsonFallback |-> TRUE]

\* detectFormat of the chunker: every branch returns detection.format.
detectFormat(det, enableHtml, enableJson) ==
    IF det.format = "html" /\ enableHtml /\ det.confidence > 50
    THEN "html"
    ELSE IF det.format = "json" /\ enableJson /\ det.confidence > 70
    THEN "json"
    ELSE det.format

\* The regex state after the strategy of a format ran: the HTML chunker
\* strips tags with replace, the other strategies only split.
StrategyRegexUse(format, li) ==
    IF format = "html"
    THEN StringMatchAll(li, "allTags")
    ELSE StringSplit(li, "horizontalRules")

\* A call of either function: its name, its document and its options.
Call(fn, d, o) == [fn |-> fn, document |-> d, options |-> o]
NoCall == Call("none", CHOOSE d \in Documents : TRUE, NoOptions)

DetectIdle ==
    /\ lastIndex = FreshRegexes
    /\ detectArg = NoCall
    /\ detectResult = NoDetection
    /\ chosenFormat = "none"
    /\ dcalls = 0

detectDocumentFormat_call(d) ==
    /\ dcalls < MaxCalls
    /\ LET r == detectDocumentFormat(d, lastIndex)
       IN /\ detectResult' = r.result
          /\ lastIndex' = r.lastIndex
    /\ detectArg' = Call("detectDocumentFormat", d, NoOptions)
    /\ chosenFormat' = "none"
    /\ dcalls' = dcalls + 1
    /\ UNCHANGED notDetectVars

\* splitIntoChunks, also as searchInDocs calls it: the format it settles on
\* and the shared regex state it leaves; the chunks are SpecChunk's matter.
splitIntoChunks_call(d, o) ==
    /\ dcalls < MaxCalls
    /\ IF o.forceFormat # "none"
       THEN /\ detectResult' = NoDetection
            /\ chosenFormat' = o.forceFormat
            /\ lastIndex' = StrategyRegexUse(o.forceFormat, lastIndex)
       ELSE LET r == detectDocumentFormat(d, lastIndex)
                format == detectFormat(r.result, o.enableHtmlFallback,
                                       o.enableJsonFallback)
            IN /\ detectResult' = r.result
               /\ chosenFormat' = format
               /\ lastIndex' = StrategyRegexUse(format, r.lastIndex)
    /\ detectArg' = Call("splitIntoChunks", d, o)
    /\ dcalls' = dcalls + 1
    /\ UNCHANGED notDetectVars

(***************************************************************************)
(* Scoring (scorer.ts).  A string is a sequence of characters over         *)
(* Alphabet: a letter, a space, a punctuation mark that also opens a       *)
(* Markdown header, and a code fence (three backticks, kept as one         *)
(* element).  A chunk scored here is a single line.  Scores are integers   *)
(* in units of 1/200: the weights 10, 2 and 0.5 are 20, 4 and 1 halves,    *)
(* the multipliers 1.2 and 1.3 are 12 and 13 tenths.                       *)
(***************************************************************************)
CodeFence == "fence"
Alphabet == {"a", " ", "#", CodeFence}
IsWordChar(c) == c \in {"a", "b", "c"}
Strings(n) == UNION {[1..k -> Alphabet] : k \in 0..n}

\* A line break, and a run of twelve full stops kept as one element.
Newline == "nl"
Dots == "dots"

\* string.length: the fence is three characters, the run of full stops
\* twelve.
StringLength(s) ==
    Len(s) + 2 * Cardinality({i \in DOMAIN s : s[i] = CodeFence})
           + 11 * Cardinality({i \in DOMAIN s : s[i] = Dots})

\* replace(/\s+/g, " "): of each run of spaces one space stays.
SqueezeSpaces(s) ==
    LET kept == {i \in DOMAIN s :
                    ~(s[i] = " " /\ i < Len(s) /\ s[i + 1] = " ")}
        position(k) == CHOOSE i \in kept :
                          Cardinality({j \in kept : j <= i}) = k
    IN  [k \in 1..Cardinality(kept) |-> s[position(k)]]

\* trim() of a string whose runs of spaces are single spaces
TrimSpaces(s) ==
    LET a == IF s # << >> /\ Head(s) = " " THEN Tail(s) ELSE s
    IN  IF a # << >> /\ a[Len(a)] = " " THEN SubSeq(a, 1, Len(a) - 1) ELSE a

\* normalizeText: every character that is not a word character or
\* whitespace becomes a space, runs of whitespace one space, then trim.
normalizeText(text) ==
    TrimSpaces(SqueezeSpaces(
        [i \in DOMAIN text |-> IF IsWordChar(text[i]) THEN text[i] ELSE " "]))

\* String.prototype.includes
includes(s, sub) ==
    \E i \in 0..(Len(s) - Len(sub)) : SubSeq(s, i + 1, i + Len(sub)) = sub

\* String.prototype.split(" "); split(/\s+/) differs by empty pieces only
RECURSIVE SplitOnSpace(_)
SplitOnSpace(s) ==
    IF \A i \in DOMAIN s : s[i] # " " THEN <<s>>
    ELSE LET i == CHOOSE j \in DOMAIN s :
                     s[j] = " " /\ \A k \in 1..(j - 1) : s[k] # " "
         IN  <<SubSeq(s, 1, i - 1)>> \o SplitOnSpace(SubSeq(s, i + 1, Len(s)))

IsPrefix(w, s) == Len(w) <= Len(s) /\ SubSeq(s, 1, Len(w)) = w

exactMatch == 20
wordMatch == 4
partialMatch == 1
codeBonus == 12
headerBonus == 13
NoBonus == 10

\* The matches of \bword\b and of \bword in a normalized chunk: its words
\* equal to the word, and its words that start with it.  The first
\* definition is the count of ^word$ instead.
ExactMatches_WholeChunk(normalizedChunk, word) ==
    IF normalizedChunk = word THEN 1 ELSE 0

ExactMatches(normalizedChunk, word) ==
    Cardinality({i \in DOMAIN SplitOnSpace(normalizedChunk) :
                    SplitOnSpace(normalizedChunk)[i] = word})
PartialMatches(normalizedChunk, word) ==
    Cardinality({i \in DOMAIN SplitOnSpace(normalizedChunk) :
                    IsPrefix(word, SplitOnSpace(normalizedChunk)[i])})

\* calculateWordMatchScore over the first n words of the term, by
\* contribution.
RECURSIVE calculateWordMatchScore(_, _, _)
calculateWordMatchScore(normalizedChunk, words, n) ==
    IF n = 0 THEN [exactWord |-> 0, prefix |-> 0]
    ELSE LET before == calculateWordMatchScore(normalizedChunk, words, n - 1)
             word == words[n]
         IN  IF Len(word) < 2 THEN before
             ELSE [exactWord |-> before.exactWord
                       + ExactMatches(normalizedChunk, word) * wordMatch,
                   prefix |-> before.prefix
                       + PartialMatches(normalizedChunk, word) * partialMatch]

\* if (!normalizedTerm) continue, and the loop without it.
SkipsTerm_Never(normalizedTerm) == FALSE
SkipsTerm(normalizedTerm) == normalizedTerm = << >>

\* What one term adds to the score of a chunk, by contribution.
TermScore(chunk, term) ==
    LET normalizedChunk == normalizeText(chunk)
        normalizedTerm == normalizeText(term)
        words == SplitOnSpace(normalizedTerm)
        m == calculateWordMatchScore(normalizedChunk, words, Len(words))
    IN  IF SkipsTerm(normalizedTerm)
        THEN [substring |-> 0, exactWord |-> 0, prefix |-> 0]
        ELSE [substring |-> IF includes(normalizedChunk, normalizedTerm)
                            THEN exactMatch * Len(words) ELSE 0,
              exactWord |-> m.exactWord,
              prefix |-> m.prefix]

\* SEPARATION_PATTERNS.codeBlock: two fences, or four spaces or more and
\* then a character that is not whitespace, at the start of the line.
codeBlock(chunk) ==
    \/ \E i, j \in DOMAIN chunk :
          i < j /\ chunk[i] = CodeFence /\ chunk[j] = CodeFence
    \/ \E k \in 4..(Len(chunk) - 1) :
          /\ \A i \in 1..k : chunk[i] = " "
          /\ chunk[k + 1] # " "

\* SEPARATION_PATTERNS.hasHeader: one to six # and whitespace, at the start
\* of the line.
hasHeader(chunk) ==
    \E k \in 1..6 :
       /\ k < Len(chunk)
       /\ \A i \in 1..k : chunk[i] = "#"
       /\ chunk[k + 1] = " "

CodeMultiplier(chunk) == IF codeBlock(chunk) THEN codeBonus ELSE NoBonus
HeaderMultiplier(chunk) == IF hasHeader(chunk) THEN headerBonus ELSE NoBonus

applyBonuses(chunk, score) ==
    score * CodeMultiplier(chunk) * HeaderMultiplier(chunk)

RECURSIVE SumTerms(_, _, _)
SumTerms(chunk, searchTerms, n) ==
    IF n = 0 THEN 0
    ELSE LET t == TermScore(chunk, searchTerms[n])
         IN  SumTerms(chunk, searchTerms, n - 1)
             + t.substring + t.exactWord + t.prefix

calculateRelevanceScore(chunk, searchTerms) ==
    applyBonuses(chunk, SumTerms(chunk, searchTerms, Len(searchTerms)))

\* extractSearchTerms: the query, then its words of more than 2 characters.
extractSearchTerms(q) ==
    <<q>> \o SelectSeq(SplitOnSpace(q), LAMBDA w : StringLength(w) > 2)

\* The score of a chunk for one term, with what each part contributes.
ScoreBreakdown(chunk, term) ==
    LET t == TermScore(chunk, term)
    IN  [substring |-> t.substring, exactWord |-> t.exactWord,
         prefix |-> t.prefix,
         code |-> CodeMultiplier(chunk), header |-> HeaderMultiplier(chunk),
         score |-> calculateRelevanceScore(chunk, <<term>>)]

\* Characters of a chunk and of a term scored on its own.
MaxChunkChars == 3
MaxTermChars == 2

\* A chunk, a term, and where a further occurrence of the term is put into
\* the chunk: after the first at characters, as it is or with a space on
\* either side.
ScoreInputs ==
    {in \in [chunk : Strings(MaxChunkChars),
             term : Strings(MaxTermChars) \ {<< >>},
             at : 0..MaxChunkChars, spaced : BOOLEAN] :
        in.at <= Len(in.chunk)}
NoScoreInput == [chunk |-> << >>, term |-> <<"a">>, at |-> 0, spaced |-> FALSE]

Grown(in) ==
    SubSeq(in.chunk, 1, in.at)
    \o (IF in.spaced THEN <<" ">> \o in.term \o <<" ">> ELSE in.term)
    \o SubSeq(in.chunk, in.at + 1, Len(in.chunk))

\* A JSON value: a string, an array of values, an object of named values in
\* the order of insertion, or a number, a boolean or null, of which only
\* whether it is falsy is kept.
JString(str) == [kind |-> "string", s |-> str, items |-> << >>]
JArray(values) == [kind |-> "array", s |-> << >>, items |-> values]
JObject(fields) == [kind |-> "object", s |-> << >>, items |-> fields]
JFalsy == [kind |-> "falsy", s |-> << >>, items |-> << >>]
JTruthy == [kind |-> "truthy", s |-> << >>, items |-> << >>]
Field(name, value) == [name |-> name, value |-> value]

JsonIdle == parsed = JFalsy /\ textContent = << >>

ScoreIdle ==
    /\ scoreInput = NoScoreInput /\ scoreOut = << >>
    /\ query = << >> /\ chunkTexts = << >> /\ docText = << >>
    /\ JsonIdle

\* calculateRelevanceScore(chunk, [term]), called for the chunk and then
\* for the chunk with the further occurrence.
calculateRelevanceScore_call ==
    /\ Len(scoreOut) < 2
    /\ scoreOut' = Append(scoreOut,
          ScoreBreakdown(IF scoreOut = << >> THEN scoreInput.chunk
                         ELSE Grown(scoreInput), scoreInput.term))
    /\ UNCHANGED <<scoreInput, query, chunkTexts, docText, parsed, textContent>>
    /\ UNCHANGED notScoreVars

\* Steps 1 to 3 of searchInDocs: the chunks of the document, the search
\* terms of the query, the score of every chunk.
searchInDocs_score ==
    /\ spc = "entered"
    /\ chunks' = [i \in DOMAIN chunkTexts |-> StringLength(chunkTexts[i])]
    /\ scores' = [i \in DOMAIN chunkTexts |->
                    calculateRelevanceScore(chunkTexts[i],
                                            extractSearchTerms(query))]
    /\ spc' = "called"
    /\ UNCHANGED <<maxResults, relevantChunks, loopIdx, usedIndices, results,
                   searchResult>>
    /\ UNCHANGED notSearchVars

(***************************************************************************)
(* splitIntoChunks on a document given as a string of the characters       *)
(* above: no character opens JSON or an HTML tag, a list item, a link,     *)
(* emphasis or a horizontal rule.                                          *)
(***************************************************************************)
IsWhitespace(c) == c \in {" ", Newline}

\* String.prototype.trim
RECURSIVE TrimWhitespace(_)
TrimWhitespace(s) ==
    IF s = << >> THEN s
    ELSE IF IsWhitespace(Head(s)) THEN TrimWhitespace(Tail(s))
    ELSE IF IsWhitespace(s[Len(s)])
         THEN TrimWhitespace(SubSeq(s, 1, Len(s) - 1))
    ELSE s

\* ^ with the m flag
AtLineStart(text, p) == p = 1 \/ text[p - 1] = Newline

\* SEPARATION_PATTERNS.hasHeader matches at p: ^#{1,6}\s+
HeaderPrefixAt(text, p) ==
    /\ AtLineStart(text, p)
    /\ \E k \in 1..6 :
          /\ p + k <= Len(text)
          /\ \A i \in p..(p + k - 1) : text[i] = "#"
          /\ IsWhitespace(text[p + k])

\* The lookahead of SEPARATION_PATTERNS.headers succeeds at p:
\* ^#{1,6}\s+.+$ , where . is any character but a line break.  The first
\* definition is a pattern that matches nowhere.
HeaderAt_Never(text, p) == FALSE
HeaderAt(text, p) ==
    /\ AtLineStart(text, p)
    /\ \E k \in 1..6, j \in 1..Len(text) :
          /\ p + k + j <= Len(text)
          /\ \A i \in p..(p + k - 1) : text[i] = "#"
          /\ \A i \in (p + k)..(p + k + j - 1) : IsWhitespace(text[i])
          /\ text[p + k + j] # Newline

\* split by a pattern that matches the empty string before each position
\* of points: the pieces between them (no split before the first character).
RECURSIVE SplitBeforePositions(_, _)
SplitBeforePositions(text, points) ==
    IF points = {} THEN <<text>>
    ELSE LET p == CHOOSE q \in points : \A r \in points : r <= q
         IN  SplitBeforePositions(SubSeq(text, 1, p - 1), points \ {p})
             \o <<SubSeq(text, p, Len(text))>>

\* split(SEPARATION_PATTERNS.paragraphs): at each run of two line breaks or
\* more, which is removed.
RECURSIVE SplitParagraphs(_)
SplitParagraphs(text) ==
    LET starts == {p \in 1..(Len(text) - 1) :
                      text[p] = Newline /\ text[p + 1] = Newline}
    IN  IF starts = {} THEN <<text>>
        ELSE LET p == CHOOSE q \in starts : \A r \in starts : q <= r
                 e == CHOOSE q \in p..Len(text) :
                         /\ \A i \in p..q : text[i] = Newline
                         /\ q = Len(text) \/ text[q + 1] # Newline
             IN  <<SubSeq(text, 1, p - 1)>>
                 \o SplitParagraphs(SubSeq(text, e + 1, Len(text)))

\* filter((chunk) => chunk.trim())
NonBlankStrings(pieces) ==
    SelectSeq(pieces, LAMBDA c : TrimWhitespace(c) # << >>)

\* splitMarkdownDocument for a document without horizontal rules whose
\* pieces are all within MAX_CHUNK_SIZE (refineChunks keeps such pieces as
\* they are).
MinSizeFilter(pieces) ==
    SelectSeq(pieces,
              LAMBDA c : StringLength(TrimWhitespace(c)) > MIN_CHUNK_SIZE)

splitMarkdownString(text) ==
    LET headerSplit ==
            NonBlankStrings(SplitBeforePositions(text,
                {p \in 2..Len(text) : HeaderAt(text, p)}))
        pieces == IF Len(headerSplit) > 1 THEN headerSplit
                  ELSE NonBlankStrings(SplitParagraphs(text))
    IN  MinSizeFilter(pieces)

\* What the string is to detectDocumentFormat.
StringFeatures(text) ==
    [json |-> "none", isHtml |-> FALSE, tagCount |-> 0,
     headerTag |-> NoMatch, paragraphTag |-> NoMatch,
     hasHeader |-> \E p \in DOMAIN text : HeaderPrefixAt(text, p),
     fenced |-> Cardinality({i \in DOMAIN text : text[i] = CodeFence}) >= 2,
     listItems |-> FALSE, links |-> FALSE, emphasis |-> FALSE,
     horizontalRule |-> NoMatch]

\* Step 1 of searchInDocs: splitIntoChunks with the default options.
searchInDocs_split ==
    /\ spc = "start"
    /\ LET r == detectDocumentFormat(StringFeatures(docText), lastIndex)
           format == detectFormat(r.result, TRUE, TRUE)
       IN  /\ format \in {"markdown", "text"}
           /\ chunkTexts' = splitMarkdownString(docText)
           /\ detectResult' = r.result
           /\ chosenFormat' = format
           /\ lastIndex' = StrategyRegexUse(format, r.lastIndex)
    /\ spc' = "entered"
    /\ UNCHANGED <<detectArg, dcalls>>
    /\ UNCHANGED <<scoreInput, scoreOut, query, docText, parsed, textContent>>
    /\ UNCHANGED <<chunks, scores, maxResults, relevantChunks, loopIdx,
                   usedIndices, results, searchResult>>
    /\ UNCHANGED <<processVars, chunkVars, contextVars, handlerVars,
      openApiVars>>

(***************************************************************************)
(* getExpandedContext called on its own.                                   *)
(***************************************************************************)
NoContext == [parts |-> << >>, length |-> 0 - 1]

ContextIdle ==
    /\ contextArg = [chunks |-> << >>, targetIndex |-> 0]
    /\ contextOut = NoContext

getExpandedContext_call ==
    /\ contextOut = NoContext
    /\ contextOut' = getExpandedContext(contextArg.chunks,
                                        contextArg.targetIndex)
    /\ UNCHANGED contextArg
    /\ UNCHANGED notContextVars

(***************************************************************************)
(* The handler of the search_docs tool.  fetchDocument either throws or    *)
(* returns the document, here by the chunks splitIntoChunks makes of it    *)
(* and the score each gets for the search; searchInDocs then runs its      *)
(* steps, and the handler builds its output from what it returned.         *)
(***************************************************************************)
\* The default of searchInDocs for maxResults.
DefaultMaxResults == 3

\* max_results when the caller gives none.
NoMaxResults == 0

\* "Nenhum resultado encontrado para a busca.": no expanded context, which
\* has the length of the chunks it joins, is this string.
NoResultsSentinel == [parts |-> << >>, length |-> 41]

\* The results of the output.  The first definition passes the results of
\* searchInDocs on as they are.
OutputResults_AsReturned(found) == found
OutputResults(found) ==
    IF Len(found) > 0 THEN found ELSE <<NoResultsSentinel>>

SearchOutput(found, totalChunks, matchedChunks, error) ==
    [results |-> found, total_chunks |-> totalChunks,
     matched_chunks |-> matchedChunks, error |-> error]

NoOutput == SearchOutput(<< >>, 0 - 1, 0 - 1, "none")

\* The output of the catch block, message being that of formatHttpError.
\* The first definition leaves the error field out.
CatchOutput_NoError(message) == SearchOutput(<< >>, 0, 0, "none")
CatchOutput(message) == SearchOutput(<< >>, 0, 0, message)

HandlerIdle ==
    /\ hpc = "idle" /\ max_results = NoMaxResults /\ output = NoOutput

\* await fetchDocument(docsUrl).  When it throws, the catch block returns the
\* error output.  When it returns, searchInDocs(document, search, maxResults)
\* is entered: the number is passed where the options object is expected,
\* `const { maxResults = 3, ...chunkingOptions } = options` finds no
\* maxResults in it, and the default applies.
searchDocs_fetchDocument ==
    /\ hpc = "called"
    /\ \/ /\ hpc' = "done"
          /\ output' = CatchOutput("message")
          /\ UNCHANGED searchVars
       \/ /\ \E n \in 0..MaxChunks :
                \E cs \in [1..n -> ChunkLengths], ss \in [1..n -> Scores] :
                   /\ chunks' = cs
                   /\ scores' = ss
          /\ maxResults' = DefaultMaxResults
          /\ spc' = "called"
          /\ hpc' = "searching"
          /\ UNCHANGED <<relevantChunks, loopIdx, usedIndices, results,
                         searchResult, output>>
    /\ UNCHANGED max_results
    /\ UNCHANGED <<processVars, chunkVars, detectVars, scoreVars, contextVars,
                   openApiVars>>

\* The documents fetchDocument can return to the handler when it is followed
\* through its own steps: up to MaxToolChunks chunks of 100 characters,
\* each matching the search (score 1) or not.
MaxToolChunks == 1
ToolDocuments ==
    UNION {[chunks : [1..n -> {100}], scores : [1..n -> {0, 1}]] :
              n \in 0..MaxToolChunks}

\* fetchDocument, called by the handler, has settled.  What it threw is
\* caught by the handler; what it returned is searched as above.
searchDocs_fetched ==
    /\ hpc = "fetching"
    /\ fpc = "done"
    /\ IF fdResult.kind = "throw"
          THEN /\ hpc' = "done"
               /\ output' = CatchOutput("message")
               /\ UNCHANGED searchVars
          ELSE /\ \E d \in ToolDocuments :
                     /\ chunks' = d.chunks
                     /\ scores' = d.scores
               /\ maxResults' = DefaultMaxResults
               /\ spc' = "called"
               /\ hpc' = "searching"
               /\ UNCHANGED <<relevantChunks, loopIdx, usedIndices, results,
                              searchResult, output>>
    /\ UNCHANGED max_results
    /\ UNCHANGED <<processVars, chunkVars, detectVars, scoreVars, contextVars,
                   openApiVars>>

\* searchInDocs returned: the output and the return of the handler.
searchDocs_return ==
    /\ hpc = "searching"
    /\ spc = "done"
    /\ output' = SearchOutput(OutputResults(searchResult.results),
                              searchResult.totalChunks,
                              searchResult.matchedChunks, "none")
    /\ hpc' = "done"
    /\ UNCHANGED max_results
    /\ UNCHANGED searchVars
    /\ UNCHANGED <<processVars, chunkVars, detectVars, scoreVars, contextVars,
                   openApiVars>>

(***************************************************************************)
(* trySwaggerExtraction on one spec URL: fetchOpenApiSpec,                 *)
(* isValidOpenApiSpec and openApiToMarkdown.  An object is kept by the     *)
(* fields these functions read.                                            *)
(***************************************************************************)
\* openapi and swagger: absent, a string with the prefix the validity test
\* asks for ("3." and "2."), or another truthy value.  paths: absent, {},
\* path items with operations, or a path whose item is null.  components:
\* absent, without schemas, or with schemas.  servers and tags: whether the
\* array is there and not empty.
SpecObjects ==
    [openapi : {"none", "3.", "other"},
     swagger : {"none", "2.", "other"},
     paths : {"none", "empty", "operations", "nullItem"},
     info : BOOLEAN,
     components : {"none", "noSchemas", "schemas"},
     definitions : BOOLEAN,
     servers : BOOLEAN,
     tags : BOOLEAN]

\* An object with none of these fields, as { _rawYaml: data } is.
NoSpecFields ==
    [openapi |-> "none", swagger |-> "none", paths |-> "none", info |-> FALSE,
     components |-> "none", definitions |-> FALSE, servers |-> FALSE,
     tags |-> FALSE]

\* response.data of the request of the spec URL: the request failed, or
\* the data is an object, null, a number, a string that JSON.parse parses
\* to an object or to a number, or a string it does not parse: a YAML
\* document, of which obj is what it describes.
SpecData(kind, obj) == [kind |-> kind, obj |-> obj]
SpecResponses ==
    {SpecData(kind, NoSpecFields) : kind \in {"reject", "null", "number",
                                              "numberString"}}
    \cup {SpecData(kind, obj) : kind \in {"object", "jsonString", "yamlString"},
                                obj \in SpecObjects}

\* A value fetchOpenApiSpec returns.
SpecValue(type, obj, rawYaml) == [type |-> type, obj |-> obj, rawYaml |-> rawYaml]
NullSpec == SpecValue("null", NoSpecFields, FALSE)

fetchOpenApiSpec(data) ==
    CASE data.kind = "reject" -> NullSpec
      [] data.kind = "object" -> SpecValue("object", data.obj, FALSE)
      [] data.kind = "null" -> NullSpec
      [] data.kind = "jsonString" -> SpecValue("object", data.obj, FALSE)
      [] data.kind = "numberString" -> SpecValue("number", NoSpecFields, FALSE)
      [] data.kind = "yamlString" -> SpecValue("object", NoSpecFields, TRUE)
      [] OTHER -> NullSpec

isValidOpenApiSpec(value) ==
    /\ value.type = "object"
    /\ \/ value.obj.openapi = "3."
       \/ value.obj.swagger = "2."
       \/ value.obj.paths # "none" \/ value.obj.info
       \/ value.obj.components # "none" \/ value.obj.definitions

isOpenApiSpec(value) ==
    /\ value.type = "object"
    /\ \/ value.obj.openapi # "none" \/ value.obj.swagger # "none"
       \/ value.obj.paths # "none" \/ value.obj.info

\* Whether openApiToMarkdown throws: formatPaths reads a method of a path
\* item that is null.
openApiToMarkdownThrows(value) ==
    isOpenApiSpec(value) /\ value.obj.paths = "nullItem"

\* openApiToMarkdown: the sections pushed, joined; formatInfo returns ""
\* without info, the other formatters start with a title.
openApiToMarkdown(value) ==
    LET obj == value.obj
        sections ==
            <<IF obj.info THEN "info" ELSE "">>
            \o (IF obj.servers THEN <<"servers">> ELSE << >>)
            \o (IF obj.tags THEN <<"tags">> ELSE << >>)
            \o (IF obj.paths # "none" THEN <<"paths">> ELSE << >>)
            \o (IF obj.components = "schemas" \/ obj.definitions
                   THEN <<"schemas">> ELSE << >>)
    IN  IF ~isOpenApiSpec(value) THEN ""
        ELSE IF \E i \in DOMAIN sections : sections[i] # ""
           THEN "spec markdown"
        ELSE ""

\* What the abstract answers of useSpec stand for.
SpecOutcome(data) ==
    LET value == fetchOpenApiSpec(data)
    IN  IF value.type = "null" THEN "none"
        ELSE IF ~isValidOpenApiSpec(value) THEN "invalid"
        ELSE IF openApiToMarkdownThrows(value) THEN "validThrows"
        ELSE IF openApiToMarkdown(value) = "" THEN "validRendersEmpty"
        ELSE "valid"

OpenApiIdle ==
    /\ opc = "idle"
    /\ specData = SpecData("reject", NoSpecFields)
    /\ spec = NullSpec
    /\ swaggerResult = NoFetchResult

\* const spec = await fetchOpenApiSpec(detection.specUrl, opts.httpTimeout)
fetchOpenApiSpec_call ==
    /\ opc = "start"
    /\ spec' = fetchOpenApiSpec(specData)
    /\ opc' = "fetched"
    /\ UNCHANGED <<specData, swaggerResult>>
    /\ UNCHANGED notOpenApiVars

\* The rest of trySwaggerExtraction when no endpoint is probed: the spec
\* is rendered when it is an object isValidOpenApiSpec accepts, and what
\* openApiToMarkdown throws is caught by smartFetch.
trySwaggerExtraction_render ==
    /\ opc = "fetched"
    /\ swaggerResult' =
          IF spec.type # "null" /\ isValidOpenApiSpec(spec)
             THEN IF openApiToMarkdownThrows(spec) THEN CaughtFailure
                  ELSE SmartFetchResult(TRUE, openApiToMarkdown(spec), "openapi",
                                        "openapi_spec", EmbeddedUrl)
             ELSE SmartFetchResult(FALSE, Null, "unknown", "openapi_spec", NoUrl)
    /\ opc' = "returned"
    /\ UNCHANGED <<specData, spec>>
    /\ UNCHANGED notOpenApiVars

\* if (result.success && result.content) return result.content; the
\* traditional request follows otherwise.
fetchDocument_test ==
    /\ opc = "returned"
    /\ opc' = IF swaggerResult.success /\ swaggerResult.content # ""
                 /\ swaggerResult.content # Null
                 THEN "contentReturned" ELSE "traditional"
    /\ UNCHANGED <<specData, spec, swaggerResult>>
    /\ UNCHANGED notOpenApiVars

\* No request is being served.
ProcessIdle ==
    /\ httpClientInstance = 0 /\ clientCreates = 0
    /\ puppeteerAvailable = Null /\ puppeteerModule = Null
    /\ installed = "none" /\ importRuns = 0
    /\ SingletonIdle /\ RenderIdle /\ FetchIdle

\* No document is being searched or split.
PureIdle ==
    /\ SearchIdle /\ ChunkIdle /\ DetectIdle /\ ScoreIdle /\ ContextIdle
    /\ HandlerIdle /\ OpenApiIdle

(***************************************************************************)
(* SpecSingleton: concurrent callers (requests served by the same process) *)
(* use the two singletons.  A caller is suspended only at an await.        *)
(***************************************************************************)
InitSingleton ==
    /\ httpClientInstance = 0
    /\ clientCreates = 0
    /\ puppeteerAvailable = Null
    /\ puppeteerModule = Null
    /\ installed \in Packages
    /\ importRuns = 0
    /\ SingletonIdle
    /\ RenderIdle
    /\ FetchIdle
    /\ PureIdle

callGetHttpClient(p) ==
    /\ apc[p] \in {"idle", "done"}
    /\ getHttpClient(p)
    /\ UNCHANGED <<puppeteerAvailable, puppeteerModule, installed, importRuns,
                   apc, aret>>
    /\ UNCHANGED <<renderVars, fetchVars>>
    /\ UNCHANGED pureVars

callIsPuppeteerAvailable(p) ==
    /\ apc[p] \in {"idle", "done"}
    /\ apc' = [apc EXCEPT ![p] = "check"]
    /\ aret' = [aret EXCEPT ![p] = Null]
    /\ UNCHANGED <<httpClientInstance, clientCreates, puppeteerAvailable,
                   puppeteerModule, installed, importRuns, cret>>
    /\ UNCHANGED <<renderVars, fetchVars>>
    /\ UNCHANGED pureVars

stepIsPuppeteerAvailable(p) ==
    /\ isPuppeteerAvailable(p)
    /\ UNCHANGED <<renderVars, fetchVars>>
    /\ UNCHANGED pureVars

NextSingleton ==
    \E p \in Callers :
        \/ callGetHttpClient(p)
        \/ callIsPuppeteerAvailable(p)
        \/ stepIsPuppeteerAvailable(p)

SpecSingleton == InitSingleton /\ [][NextSingleton]_vars

\* C8: under any interleaving of concurrent callers the HTTP client is
\* constructed at most once, the dynamic-import probe of isPuppeteerAvailable
\* runs at most once per process, and all callers observe the same client
\* instance and the same availability value.
C8_SingletonsComputedOnce ==
    /\ clientCreates <= 1
    /\ importRuns <= 1
    /\ \A p, q \in Callers :
          /\ (cret[p] # 0 /\ cret[q] # 0) => cret[p] = cret[q]
          /\ (aret[p] # Null /\ aret[q] # Null) => aret[p] = aret[q]

\* Two callers have both completed a call of each singleton accessor.
C8_Witness ==
    \E p, q \in Callers :
        /\ p # q
        /\ cret[p] # 0 /\ cret[q] # 0
        /\ apc[p] = "done" /\ apc[q] = "done"

(***************************************************************************)
(* SpecRender: one call of renderPage or renderSwaggerPage in a process    *)
(* whose availability cache is empty or was filled by an earlier call.     *)
(***************************************************************************)
InitRender ==
    /\ httpClientInstance = 0
    /\ clientCreates = 0
    /\ installed \in Packages
    /\ \E c \in {<<Null, Null>>, CacheOf(installed)} :
          puppeteerAvailable = c[1] /\ puppeteerModule = c[2]
    /\ importRuns = 0
    /\ SingletonIdle
    /\ RenderIdle
    /\ FetchIdle
    /\ PureIdle

callRender ==
    /\ rpc = "idle"
    /\ \E fn \in {"renderPage", "renderSwaggerPage"} :
       \E o \in RenderOptions :
          /\ fn = "renderSwaggerPage" => o = NoRenderOptions
          /\ renderEnter(fn, o)
    /\ UNCHANGED <<launches, closeCalls, closeFailed>>
    /\ UNCHANGED <<httpClientInstance, clientCreates, puppeteerAvailable,
                   puppeteerModule, installed, importRuns, cret>>
    /\ UNCHANGED fetchVars
    /\ UNCHANGED pureVars

stepRenderAvailability ==
    /\ isPuppeteerAvailable(Main)
    /\ UNCHANGED <<renderVars, fetchVars>>
    /\ UNCHANGED pureVars

NextRender ==
    \/ callRender
    \/ stepRenderAvailability
    \/ renderAvailable
    \/ renderBody

SpecRender == InitRender /\ [][NextRender]_vars

\* C7: every browser launched by renderPage / renderSwaggerPage has had
\* close() called on it when the function returns, on every exit path, and a
\* close() that throws leaves the returned result the one of the return
\* statement that ran.
C7_BrowserClosedOnReturn ==
    /\ launches - closeCalls \in {0, 1}
    /\ rpc = "returned" =>
          /\ closeCalls = launches
          /\ launches > 0 => rresult = rpending
          /\ launches = 0 => rresult \in {Unavailable, RenderFailure}

\* A render that launched a browser, failed in the try body and whose close()
\* threw as well has returned.
C7_Witness ==
    /\ rpc = "returned"
    /\ launches = 1
    /\ closeFailed
    /\ rresult = RenderFailure

(***************************************************************************)
(* SpecFetch: one call of fetchDocument (which passes smartFetch only its  *)
(* timeouts) or of the exported smartFetch with any options, in a process  *)
(* whose singletons are empty or were filled by an earlier call.           *)
(***************************************************************************)
InitFetch ==
    /\ \E n \in {0, 1} : httpClientInstance = n /\ clientCreates = n
    /\ installed \in Packages
    /\ \E c \in {<<Null, Null>>, CacheOf(installed)} :
          puppeteerAvailable = c[1] /\ puppeteerModule = c[2]
    /\ importRuns = 0
    /\ SingletonIdle
    /\ RenderIdle
    /\ entry \in {"fetchDocument", "smartFetch"}
    /\ useSmartFetch \in BOOLEAN
    /\ opts \in SmartFetchOptions
    /\ entry = "fetchDocument" => opts = DEFAULT_OPTIONS
    /\ entry = "smartFetch" => useSmartFetch
    /\ fpc = entry
    /\ httpResult = NoFetchResult
    /\ detection = NoSwagger
    /\ probeIdx = 0
    /\ sfResult = NoFetchResult
    /\ fdResult = [kind |-> "none", content |-> Null]
    /\ docGets = 0
    /\ specGets = << >>
    /\ specBodies = << >>
    /\ heads = << >>
    /\ headAnswers = << >>
    /\ log = << >>
    /\ PureIdle

NextFetch ==
    \/ fetchDocument_enter
    \/ smartFetch_direct
    \/ trySwaggerExtraction_detect
    \/ trySwaggerExtraction_embedded
    \/ probeCommonSpecEndpoints
    \/ trySwaggerExtraction_probed
    \/ trySwaggerExtraction_notFound
    \/ tryHeadlessRender_enter
    \/ stepRenderAvailability
    \/ tryHeadlessRender_available
    \/ renderAvailable
    \/ renderBody
    \/ tryHeadlessRender_rendered
    \/ smartFetch_fallback
    \/ fetchDocument_afterSmartFetch
    \/ fetchDocument_traditional

SpecFetch == InitFetch /\ [][NextFetch]_vars

(***************************************************************************)
(* Properties of smartFetch and fetchDocument, checked under SpecFetch.    *)
(* log is the trace of the strategies smartFetch has started and of what   *)
(* each of them returned.                                                  *)
(***************************************************************************)

\* C3: once the direct fetch has succeeded (httpResult is a success), no
\* failure or exception of a later stage makes smartFetch return
\* success = false; success = false is returned only when the direct fetch
\* itself failed.
C3_LaterStageNeverFailsFetch ==
    (sfResult # NoFetchResult /\ httpResult.success) => sfResult.success

\* The spec fetched in the Swagger stage made openApiToMarkdown throw after a
\* successful direct fetch, and smartFetch returned its catch-block failure.
C3_Witness ==
    /\ fpc = "returned"
    /\ httpResult.success
    /\ log # << >> /\ log[Len(log)] = "swagger:threw"
    /\ sfResult = CaughtFailure

\* C4: when the direct fetch returned HTML that looks like a client-rendered
\* shell and both the Swagger extraction and the headless render reported
\* failure or were disabled by the options, smartFetch returns exactly the
\* direct result: success, method direct, content type html, the fetched HTML
\* as content.
C4_FallbackReturnsDirectResult ==
    ( /\ sfResult # NoFetchResult
      /\ \E i \in DOMAIN log : log[i] = "direct:shell"
      /\ ~opts.tryOpenApiSpec \/ \E i \in DOMAIN log : log[i] = "swagger:failed"
      /\ ~opts.useHeadlessFallback \/ \E i \in DOMAIN log : log[i] = "headless:failed" )
    => /\ sfResult = httpResult
       /\ sfResult = SmartFetchResult(TRUE, "body", "html", "direct", NoUrl)

\* Both strategies ran and reported failure (the render itself failed), and
\* smartFetch returned.
C4_Witness ==
    /\ fpc = "returned"
    /\ \E i \in DOMAIN log : log[i] = "swagger:failed"
    /\ \E i \in DOMAIN log : log[i] = "render"
    /\ \E i \in DOMAIN log : log[i] = "headless:failed"
    /\ sfResult.method = "direct"

\* C5 as stated: the strategies run in the order direct, Swagger extraction,
\* headless render, fallback; Swagger extraction starts only on HTML that
\* looks like a shell; the headless render starts only after the Swagger
\* extraction returned failure and only if isPuppeteerAvailable returned
\* true; nothing is started after a success.
C5_HeadlessOnlyAfterSwaggerFailure ==
    /\ \A i \in DOMAIN log :
          log[i] = "swagger" => i = 3 /\ log[2] = "direct:shell"
    /\ \A i \in DOMAIN log :
          log[i] \in {"headless", "render"} =>
             \E j \in 1..(i - 1) : log[j] = "swagger:failed"
    /\ (\E i \in DOMAIN log : log[i] = "render") => puppeteerAvailable = "true"
    /\ \A i \in DOMAIN log :
          log[i] \in {"direct:final", "swagger:ok", "headless:ok"} => i = Len(log)

\* C5 as the code has it: the order is fixed and the first success ends the
\* chain; Swagger extraction starts only on HTML that looks like a shell and
\* with tryOpenApiSpec; the headless strategy starts only with
\* useHeadlessFallback and after the Swagger extraction returned failure or
\* was switched off by tryOpenApiSpec = false; the page is rendered only if
\* isPuppeteerAvailable returned true; the fallback comes only after each of
\* the two failed or was switched off; nothing is started after a success or
\* after an exception.
C5_StrategyOrder ==
    /\ log # << >> => log[1] = "direct"
    /\ \A i, j \in DOMAIN log :
          (log[i] = log[j] /\ log[i] \in {"direct", "swagger", "headless",
                                          "render", "fallback"}) => i = j
    /\ \A i \in DOMAIN log :
          log[i] = "swagger" =>
             i = 3 /\ log[2] = "direct:shell" /\ opts.tryOpenApiSpec
                   /\ httpResult.contentType = "html"
    /\ \A i \in DOMAIN log :
          log[i] = "headless" =>
             /\ opts.useHeadlessFallback
             /\ log[i - 1] = IF opts.tryOpenApiSpec THEN "swagger:failed"
                             ELSE "direct:shell"
    /\ \A i \in DOMAIN log :
          log[i] = "render" => log[i - 1] = "headless" /\ puppeteerAvailable = "true"
    /\ \A i \in DOMAIN log :
          log[i] = "fallback" =>
             log[i - 1] = IF opts.useHeadlessFallback THEN "headless:failed"
                          ELSE IF opts.tryOpenApiSpec THEN "swagger:failed"
                          ELSE "direct:shell"
    /\ \A i \in DOMAIN log :
          log[i] \in {"direct:final", "direct:threw", "swagger:ok",
                      "swagger:threw", "headless:ok", "fallback"} => i = Len(log)

\* The Swagger extraction was switched off and the page was rendered and
\* returned by the headless strategy.
C5_Witness ==
    /\ ~opts.tryOpenApiSpec
    /\ log = <<"direct", "direct:shell", "headless", "render", "headless:ok">>
    /\ sfResult.method = "headless"

\* C6 as stated: within one fetchDocument the documentation URL is requested
\* by GET at most once and each spec URL is requested by fetchOpenApiSpec at
\* most once.
C6_NoRequestRepeated ==
    /\ docGets <= 1
    /\ \A i, j \in DOMAIN specGets : specGets[i] = specGets[j] => i = j

\* C6 as the code has it: smartFetch requests the documentation URL once;
\* fetchDocument requests it a second time (its traditional method) exactly
\* when smartFetch did not return a success with content; fetchOpenApiSpec
\* is called at most twice, first for the URL the page embeds, then for the
\* candidate the probe accepted, and the two may be the same URL.
C6_RequestsBounded ==
    /\ docGets <= 2
    /\ entry = "smartFetch" => docGets <= 1
    /\ docGets = 2 =>
          /\ entry = "fetchDocument"
          /\ ~(sfResult.success /\ sfResult.content \notin {Null, ""})
    /\ (fpc = "done" /\ useSmartFetch /\ docGets = 1) =>
          (sfResult.success /\ sfResult.content \notin {Null, ""})
    /\ Len(specGets) <= 2
    /\ Len(specGets) = 2 =>
          /\ specGets[1] = detection.specUrl
          /\ specGets[2] = ProbeOrder[probeIdx]

\* fetchDocument finished after requesting the documentation URL twice and
\* the same spec URL twice.
C6_Witness ==
    /\ fpc = "done"
    /\ docGets = 2
    /\ Len(specGets) = 2 /\ specGets[1] = specGets[2]

Requested(seq) == {seq[i] : i \in DOMAIN seq}

SpecFetchLive == SpecFetch /\ WF_vars(NextFetch)

\* C22: every call of smartFetch eventually returns a SmartFetchResult; the
\* result, once returned, is never replaced by another one; and the probe
\* never issues more HEAD checks than there are candidates.
C22_SmartFetchCompletes ==
    /\ (fpc = "smartFetch") ~> (sfResult # NoFetchResult)
    /\ [][sfResult # NoFetchResult => sfResult' = sfResult]_vars
    /\ [](Len(heads) <= Len(generateSpecUrls) + Len(ROOT_SPEC_ENDPOINTS))
    /\ [](sfResult # NoFetchResult =>
            /\ fpc \in {"returned", "traditional", "done"}
            /\ sfResult.success \in BOOLEAN)

\* smartFetch returned the shell HTML after going through every strategy:
\* every candidate of the probe was checked and rejected and the headless
\* render was tried.
C22_Witness ==
    /\ entry = "smartFetch"
    /\ fpc = "returned"
    /\ Len(heads) = Len(generateSpecUrls) + Len(ROOT_SPEC_ENDPOINTS)
    /\ \E i \in DOMAIN log : log[i] = "headless"
    /\ log[Len(log)] = "fallback"
    /\ sfResult = httpResult

(***************************************************************************)
(* SpecSearch: one call of searchInDocs on a document of up to MaxChunks   *)
(* chunks, each with a length and a score, for every maxResults up to      *)
(* MaxResultsBound.                                                        *)
(***************************************************************************)
InitSearch ==
    /\ ProcessIdle
    /\ ChunkIdle
    /\ DetectIdle
    /\ ScoreIdle
    /\ ContextIdle
    /\ HandlerIdle /\ OpenApiIdle
    /\ \E n \in 0..MaxChunks :
          /\ chunks \in [1..n -> ChunkLengths]
          /\ scores \in [1..n -> Scores]
    /\ maxResults \in 0..MaxResultsBound
    /\ spc = "called"
    /\ relevantChunks = << >> /\ loopIdx = 0 /\ usedIndices = {}
    /\ results = << >> /\ searchResult = NoSearchResult

NextSearch ==
    \/ searchInDocs_rank
    \/ selectBestResults_loop
    \/ searchInDocs_return

SpecSearch == InitSearch /\ [][NextSearch]_vars

\* C1: any two results returned by searchInDocs come from chunks whose
\* indices differ by more than 1.
C1_ResultsNotAdjacent ==
    \A i, j \in DOMAIN results :
       i # j => \/ results[i].index - results[j].index > 1
                \/ results[j].index - results[i].index > 1

\* Two adjacent chunks both matched, the lower-ranked one was skipped, and
\* two results were returned.
C1_Witness ==
    /\ spc = "done"
    /\ Len(searchResult.results) >= 2
    /\ \E k \in DOMAIN relevantChunks :
          /\ relevantChunks[k] \in usedIndices
          /\ \A i \in DOMAIN results : results[i].index # relevantChunks[k]
          /\ k < loopIdx

\* C2: for any two distinct results of one searchInDocs call, the sets of
\* chunk indices whose text is in their expanded contexts are disjoint.
C2_ContextsDisjoint ==
    \A i, j \in DOMAIN results :
       i # j =>
          {results[i].context.parts[k] : k \in DOMAIN results[i].context.parts}
          \cap
          {results[j].context.parts[k] : k \in DOMAIN results[j].context.parts}
          = {}

\* Two results whose source chunks are two apart were returned, and the
\* chunk between them is in both contexts.
C2_Witness ==
    /\ spc = "done"
    /\ \E i, j \in DOMAIN results :
          /\ results[j].index = results[i].index + 2
          /\ \E a \in DOMAIN results[i].context.parts,
                b \in DOMAIN results[j].context.parts :
                /\ results[i].context.parts[a] = results[i].index + 1
                /\ results[j].context.parts[b] = results[i].index + 1

(***************************************************************************)
(* SpecChunk: one call of splitIntoChunks, on a text document of up to     *)
(* MaxBlocks blocks (each with or without a header prefix, of up to        *)
(* MaxSentences sentences joined by a space; the blocks are separated by a *)
(* paragraph break, a line break or a horizontal rule on its own line), or *)
(* on an HTML document of up to MaxElements elements.  The format is the   *)
(* one the document is written in.                                         *)
(***************************************************************************)
SentenceLengths == {4, 1000, 2100}
Separators == {"paragraph", "line", "rule"}

Blocks ==
    [header : BOOLEAN,
     lens : UNION {[1..n -> SentenceLengths] : n \in 1..MaxSentences}]

\* The text of block b: its header prefix and its sentences.
BlockText(block, b) ==
    (IF block.header THEN <<HeaderPrefix(10 * b)>> ELSE << >>)
    \o Flatten([k \in DOMAIN block.lens |->
                   (IF k > 1 THEN <<Space>> ELSE << >>)
                   \o <<Sentence(block.lens[k], 10 * b + k)>>])

SeparatorText(sep, b) ==
    CASE sep = "paragraph" -> <<ParagraphBreak>>
      [] sep = "line" -> <<LineBreak>>
      [] OTHER -> <<LineBreak, HorizontalRule(10 * b), LineBreak>>

\* The text of the blocks, seps[b] standing before block b > 1.
DocumentText(blocks, seps) ==
    Flatten([b \in DOMAIN blocks |->
                (IF b > 1 THEN SeparatorText(seps[b], b) ELSE << >>)
                \o BlockText(blocks[b], b)])

InitChunk ==
    /\ ProcessIdle
    /\ SearchIdle
    /\ DetectIdle
    /\ ScoreIdle
    /\ ContextIdle
    /\ HandlerIdle /\ OpenApiIdle
    /\ \/ \E n \in 0..MaxBlocks :
             \E blocks \in [1..n -> Blocks], seps \in [1..n -> Separators] :
                /\ n >= 1 => seps[1] = "paragraph"
                /\ document = [format |-> "markdown",
                               text |-> DocumentText(blocks, seps),
                               elements |-> << >>]
       \/ \E n \in 0..MaxElements :
             \E tags \in [1..n -> HtmlTags], lens \in [1..n -> SentenceLengths] :
                document = [format |-> "html",
                            text |-> << >>,
                            elements |-> [i \in 1..n |->
                               Element(tags[i], <<Sentence(lens[i], i)>>)]]
    /\ cpc = "called"
    /\ refinedChunks = << >>
    /\ returnedChunks = << >>

NextChunk ==
    \/ splitMarkdownDocument_refine
    \/ splitMarkdownDocument_filter
    \/ splitHtmlIntoChunks_group
    \/ splitHtmlIntoChunks_filter
    \/ splitHtmlDocument_toMarkdown

SpecChunk == InitChunk /\ [][NextChunk]_vars

\* The text the document holds: every token of a text document that is not
\* whitespace, the text of every element of an HTML document but its scripts.
DocumentContent ==
    IF document.format = "html"
       THEN Flatten([i \in DOMAIN cleanHtml(document.elements) |->
                        cleanHtml(document.elements)[i].text])
       ELSE SelectSeq(document.text, LAMBDA tok : ~IsSpace(tok))

\* C9: every chunk the Markdown/text chunker returns has length <=
\* MAX_CHUNK_SIZE unless it consists of a single sentence that alone is
\* longer than the cap.
C9_ChunksWithinCap ==
    (cpc = "done" /\ document.format = "markdown") =>
       \A c \in DOMAIN returnedChunks :
          \/ TextLength(returnedChunks[c]) <= MAX_CHUNK_SIZE
          \/ /\ Cardinality({i \in DOMAIN returnedChunks[c] :
                                returnedChunks[c][i].t = "s"}) = 1
             /\ \E i \in DOMAIN returnedChunks[c] :
                   /\ returnedChunks[c][i].t = "s"
                   /\ returnedChunks[c][i].n > MAX_CHUNK_SIZE

\* splitBySentences packed two sentences of 1000 characters and the space
\* between them into one returned chunk of 2001 characters.
C9_Witness ==
    /\ cpc = "done"
    /\ document.format = "markdown"
    /\ Len(document.text) = 3
    /\ \E c \in DOMAIN returnedChunks :
          /\ TextLength(returnedChunks[c]) = MAX_CHUNK_SIZE + 1
          /\ Len(returnedChunks[c]) = 3
          /\ returnedChunks[c][1].n = 1000
          /\ returnedChunks[c][2] = Space
          /\ returnedChunks[c][3].n = 1000

\* C10: the chunks splitIntoChunks returns, in order, hold the content of
\* the document, but for the pieces the minimum-size filter removed: the
\* chunks before the filter hold every token of the content once and in the
\* order of the document, and the filter removes only chunks whose trimmed
\* length is at most MIN_CHUNK_SIZE.
C10_ChunkCoverage ==
    cpc = "done" =>
       /\ SelectSeq(Flatten(refinedChunks),
                    LAMBDA tok : \E i \in DOMAIN DocumentContent :
                                    DocumentContent[i] = tok)
          = DocumentContent
       /\ \A c \in DOMAIN refinedChunks :
             \/ \E r \in DOMAIN returnedChunks :
                   returnedChunks[r] = refinedChunks[c]
             \/ TextLength(trim(refinedChunks[c])) <= MIN_CHUNK_SIZE

\* An HTML document with a paragraph and a list item was split, and the text
\* of the list item is in no chunk, before or after the filter.
C10_Witness ==
    /\ cpc = "done"
    /\ document.format = "html"
    /\ \E i, j \in DOMAIN document.elements :
          /\ document.elements[i].tag = "p"
          /\ document.elements[j].tag = "li"
          /\ TextLength(document.elements[j].text) > MIN_CHUNK_SIZE
          /\ \A c \in DOMAIN refinedChunks : \A k \in DOMAIN refinedChunks[c] :
                refinedChunks[c][k] # document.elements[j].text[1]


\* The indices of the chunks whose score is above 0.
Matched == {i \in 0..(Len(scores) - 1) : scores[i + 1] > 0}

\* C14: only chunks with score > 0 are ranked and emitted; the results come
\* in non-increasing order of the score of their source chunk, chunks of
\* equal score in document order; a chunk of score 0 is never the source
\* of a result.
C14_ResultsRankedByScore ==
    /\ spc \in {"select", "return", "done"} =>
          /\ {relevantChunks[i] : i \in DOMAIN relevantChunks} = Matched
          /\ \A i, j \in DOMAIN relevantChunks :
                i < j => LET a == relevantChunks[i]
                             b == relevantChunks[j]
                         IN  \/ scores[a + 1] > scores[b + 1]
                             \/ scores[a + 1] = scores[b + 1] /\ a < b
    /\ \A i \in DOMAIN results : scores[results[i].index + 1] > 0
    /\ \A i, j \in DOMAIN results :
          i < j => LET a == results[i].index
                       b == results[j].index
                   IN  \/ scores[a + 1] > scores[b + 1]
                       \/ scores[a + 1] = scores[b + 1] /\ a < b

\* Two results were returned whose source chunks have the same score, from
\* a document that also has a chunk of score 0 and one of a higher score.
C14_Witness ==
    /\ spc = "done"
    /\ Len(results) >= 2
    /\ \E i, j \in DOMAIN results :
          i < j /\ scores[results[i].index + 1] = scores[results[j].index + 1]
    /\ \E i \in DOMAIN scores : scores[i] = 0
    /\ Len(relevantChunks) > Len(results)

\* C15: usedIndices only grows; no chunk index is emitted twice; never more
\* than maxResults results are emitted, and at return results.length <=
\* min(maxResults, matchedChunks) and matchedChunks <= totalChunks, with
\* totalChunks the number of chunks and matchedChunks the number of chunks
\* of score > 0; once maxResults results are emitted none is added.
C15_SelectionBounded ==
    /\ [](/\ \A i, j \in DOMAIN results :
                i # j => results[i].index # results[j].index
          /\ Len(results) <= maxResults
          /\ spc = "done" =>
                /\ Len(searchResult.results) = Len(results)
                /\ Len(searchResult.results) <= maxResults
                /\ Len(searchResult.results) <= searchResult.matchedChunks
                /\ searchResult.matchedChunks <= searchResult.totalChunks
                /\ searchResult.totalChunks = Len(chunks)
                /\ searchResult.matchedChunks = Cardinality(Matched))
    /\ [][/\ usedIndices \subseteq usedIndices'
          /\ Len(results) >= maxResults => results' = results]_vars

\* The loop ended at maxResults results with ranked chunks left over.
C15_Witness ==
    /\ spc = "done"
    /\ maxResults = 2
    /\ Len(searchResult.results) = maxResults
    /\ loopIdx <= Len(relevantChunks)
    /\ searchResult.matchedChunks < searchResult.totalChunks
    /\ Cardinality(usedIndices) > Len(results)

(***************************************************************************)
(* SpecFormat: detectDocumentFormat applied once, in a fresh process, to   *)
(* every document of Documents.                                            *)
(***************************************************************************)
InitFormat ==
    /\ ProcessIdle
    /\ PureIdle

NextFormat ==
    /\ dcalls = 0
    /\ \E d \in Documents : detectDocumentFormat_call(d)

SpecFormat == InitFormat /\ [][NextFormat]_vars

\* C13: detectDocumentFormat returns the first of JSON, HTML and Markdown
\* whose confidence strictly exceeds its threshold (80, 60, 50 hundredths)
\* and otherwise text at 50; the confidence returned lies in [0, 1]; a
\* json, html or markdown result is above its own threshold; a document
\* that starts with { or [ and does not parse is never classified json.
C13_FirstFormatAboveThreshold ==
    dcalls > 0 =>
        LET d == detectArg.document
            r == detectResult
            j == checkJson(d).confidence
            h == checkHtml(d, FreshRegexes).result.confidence
            m == checkMarkdown(d, FreshRegexes).result.confidence
        IN /\ r.confidence >= 0 /\ r.confidence <= 100
           /\ r.format \in {"json", "html", "markdown", "text"}
           /\ r.format = "json" <=> j > 80
           /\ r.format = "html" <=> j <= 80 /\ h > 60
           /\ r.format = "markdown" <=> j <= 80 /\ h <= 60 /\ m > 50
           /\ r.format = "json" => r.confidence = j /\ r.confidence > 80
           /\ r.format = "html" => r.confidence = h /\ r.confidence > 60
           /\ r.format = "markdown" => r.confidence = m /\ r.confidence > 50
           /\ r.format = "text" => r.confidence = 50
           /\ d.json = "invalid" => r.format # "json"

\* A document that starts with { and does not parse, with a Markdown
\* confidence of exactly 50, came out as text.
C13_Witness ==
    /\ dcalls > 0
    /\ detectArg.document.json = "invalid"
    /\ checkHtml(detectArg.document, FreshRegexes).result.confidence = 50
    /\ checkMarkdown(detectArg.document, FreshRegexes).result.confidence = 50
    /\ detectResult.format = "text"

(***************************************************************************)
(* SpecHistory: calls of detectDocumentFormat and splitIntoChunks one      *)
(* after another in the same process, on documents that differ in what     *)
(* the shared regexes match.                                               *)
(***************************************************************************)
HistoryDocuments ==
    {d \in Documents :
        /\ d.json \in {"none", "valid"}
        /\ d.tagCount = 4
        /\ d.paragraphTag \in {NoMatch, 0}
        /\ d.hasHeader /\ d.fenced
        /\ ~d.listItems /\ ~d.links /\ ~d.emphasis}
HistoryOptions ==
    {o \in ChunkingOptions :
        /\ o.forceFormat \in {"none", "html", "markdown"}
        /\ o.enableHtmlFallback /\ o.enableJsonFallback}

InitHistory ==
    /\ ProcessIdle
    /\ PureIdle

NextHistory ==
    \/ \E d \in HistoryDocuments : detectDocumentFormat_call(d)
    \/ \E d \in HistoryDocuments, o \in HistoryOptions :
          splitIntoChunks_call(d, o)

SpecHistory == InitHistory /\ [][NextHistory]_vars

\* What the call recorded in detectArg returns in a fresh process.
FirstCallResult ==
    IF detectArg.options.forceFormat # "none" THEN NoDetection
    ELSE detectDocumentFormat(detectArg.document, FreshRegexes).result
FirstCallFormat ==
    IF detectArg.fn = "detectDocumentFormat" THEN "none"
    ELSE IF detectArg.options.forceFormat # "none"
    THEN detectArg.options.forceFormat
    ELSE detectFormat(FirstCallResult, detectArg.options.enableHtmlFallback,
                      detectArg.options.enableJsonFallback)

\* C11: whatever calls came before, a call returns what it returns as the
\* first call of the process, and every shared regex with the g flag is
\* back at lastIndex 0 when the call ends.
C11_CallHistoryIndependent ==
    /\ lastIndex = FreshRegexes
    /\ dcalls > 0 => /\ detectResult = FirstCallResult
                     /\ chosenFormat = FirstCallFormat

\* A second call on a document whose header, paragraph and rule tests all
\* matched, each of which moved lastIndex during the call.
C11_Witness ==
    /\ dcalls = MaxCalls
    /\ detectArg.document.headerTag = 0
    /\ detectArg.document.paragraphTag = 0
    /\ detectArg.document.horizontalRule = 0
    /\ detectArg.options.forceFormat = "none"
    /\ detectResult.format = "markdown"


(***************************************************************************)
(* SpecScore: calculateRelevanceScore for one term, applied to a chunk and *)
(* to the same chunk with one more occurrence of the term in it.           *)
(***************************************************************************)
InitScore ==
    /\ ProcessIdle
    /\ SearchIdle /\ ChunkIdle /\ DetectIdle /\ ContextIdle /\ HandlerIdle
    /\ OpenApiIdle
    /\ scoreInput \in ScoreInputs
    /\ scoreOut = << >>
    /\ query = << >> /\ chunkTexts = << >> /\ docText = << >>
    /\ JsonIdle

NextScore == calculateRelevanceScore_call

SpecScore == InitScore /\ [][NextScore]_vars

\* No part of the second score is below that part of the first.
NeverDecreased ==
    /\ scoreOut[2].score >= scoreOut[1].score
    /\ scoreOut[2].substring >= scoreOut[1].substring
    /\ scoreOut[2].exactWord >= scoreOut[1].exactWord
    /\ scoreOut[2].prefix >= scoreOut[1].prefix
    /\ scoreOut[2].code >= scoreOut[1].code
    /\ scoreOut[2].header >= scoreOut[1].header

\* C12 as stated: wherever a further verbatim occurrence of T is put into
\* C, the score for [T], its substring, exact-word and prefix parts and the
\* code and header multipliers do not decrease.
C12_ScoreMonotone ==
    Len(scoreOut) = 2 => NeverDecreased

\* C12, amended: when the further occurrence of T is appended to C after a
\* space, the score for [T], its substring, exact-word and prefix parts
\* and the code and header multipliers do not decrease.
C12_AppendedOccurrenceNeverDecreases ==
    (/\ Len(scoreOut) = 2
     /\ scoreInput.spaced
     /\ scoreInput.at = Len(scoreInput.chunk)) => NeverDecreased

\* A header chunk that holds the word got a second occurrence appended and
\* its exact-word and prefix parts grew.
C12_Witness ==
    /\ Len(scoreOut) = 2
    /\ scoreInput.spaced
    /\ scoreInput.at = Len(scoreInput.chunk)
    /\ scoreInput.at > 0
    /\ scoreOut[1].exactWord > 0
    /\ scoreOut[2].exactWord > scoreOut[1].exactWord
    /\ scoreOut[2].prefix > scoreOut[1].prefix
    /\ scoreOut[2].score > scoreOut[1].score

(***************************************************************************)
(* SpecQuery: searchInDocs from its entry, on documents of up to           *)
(* MaxQueryChunks chunks taken from QueryTexts, for the queries of         *)
(* Queries.                                                                *)
(***************************************************************************)
MaxQueryChunks == 2
QueryTexts ==
    {<<"a", "a">>, <<"#", " ", "a", "a">>, <<"a", "a", "a", " ", "a">>,
     <<CodeFence, "a", "a", CodeFence>>}
Queries ==
    {<< >>, <<" ">>, <<" ", " ", " ">>, <<"#">>, <<"#", "#", "#">>,
     <<CodeFence>>, <<"#", " ", CodeFence>>,
     <<"a">>, <<"a", "a">>, <<"a", "a", "a">>, <<"a", "a", " ", "a">>}

InitQuery ==
    /\ ProcessIdle
    /\ ChunkIdle /\ DetectIdle /\ ContextIdle /\ HandlerIdle /\ OpenApiIdle
    /\ scoreInput = NoScoreInput /\ scoreOut = << >>
    /\ query \in Queries
    /\ \E n \in 0..MaxQueryChunks : chunkTexts \in [1..n -> QueryTexts]
    /\ docText = << >>
    /\ JsonIdle
    /\ maxResults \in 0..MaxResultsBound
    /\ spc = "entered"
    /\ chunks = << >> /\ scores = << >>
    /\ relevantChunks = << >> /\ loopIdx = 0 /\ usedIndices = {}
    /\ results = << >> /\ searchResult = NoSearchResult

NextQuery ==
    \/ searchInDocs_score
    \/ searchInDocs_rank
    \/ selectBestResults_loop
    \/ searchInDocs_return

SpecQuery == InitQuery /\ [][NextQuery]_vars

\* C19: a chunk's score is never negative; for a query that normalizes to
\* the empty string every chunk scores 0, and searchInDocs returns no
\* result and matchedChunks = 0.
C19_EmptyQueryMatchesNothing ==
    /\ \A i \in DOMAIN scores : scores[i] >= 0
    /\ normalizeText(query) = << >> =>
          /\ \A i \in DOMAIN scores : scores[i] = 0
          /\ spc = "done" => /\ searchResult.results = << >>
                             /\ searchResult.matchedChunks = 0

\* searchInDocs returned for a query of punctuation only (###, which is
\* also a search term of its own) on a document of two chunks.
C19_Witness ==
    /\ spc = "done"
    /\ query = <<"#", "#", "#">>
    /\ Len(extractSearchTerms(query)) = 2
    /\ Len(chunkTexts) = 2
    /\ maxResults > 0
    /\ searchResult.totalChunks = 2


(***************************************************************************)
(* SpecContext: getExpandedContext on every array of up to                 *)
(* MaxContextChunks chunks with lengths of ContextLengths, for every       *)
(* targetIndex from -1 to the length of the array.                         *)
(***************************************************************************)
MaxContextChunks == 3
ContextLengths == {0, 100, 1400, 1497, 2999, 3000}

InitContext ==
    /\ ProcessIdle
    /\ SearchIdle /\ ChunkIdle /\ DetectIdle /\ ScoreIdle /\ HandlerIdle
    /\ OpenApiIdle
    /\ \E n \in 0..MaxContextChunks :
          \E cs \in [1..n -> ContextLengths], t \in (0 - 1)..n :
             contextArg = [chunks |-> cs, targetIndex |-> t]
    /\ contextOut = NoContext

NextContext == getExpandedContext_call

SpecContext == InitContext /\ [][NextContext]_vars

\* C16: when the target chunk is shorter than MAX_CONTEXT_SIZE, the string
\* getExpandedContext returns, separators included, is shorter than
\* MAX_CONTEXT_SIZE.
C16_ContextWithinCap ==
    (/\ contextOut # NoContext
     /\ ChunkDefined(contextArg.chunks, contextArg.targetIndex)
     /\ ChunkLength(contextArg.chunks, contextArg.targetIndex)
           < MAX_CONTEXT_SIZE)
       => contextOut.length < MAX_CONTEXT_SIZE

\* Two chunks of 1497 characters were joined: 2994 characters of chunks
\* and 7 of separator.
C16_Witness ==
    /\ contextArg.chunks = <<1497, 1497>>
    /\ contextArg.targetIndex = 0
    /\ contextOut.parts = <<0, 1>>
    /\ contextOut.length = MAX_CONTEXT_SIZE + 1

(***************************************************************************)
(* SpecHandler: one call of search_docs, with or without max_results, on   *)
(* every document of up to MaxChunks chunks.                               *)
(***************************************************************************)
InitHandler ==
    /\ ProcessIdle
    /\ SearchIdle /\ ChunkIdle /\ DetectIdle /\ ScoreIdle /\ ContextIdle
    /\ OpenApiIdle
    /\ hpc = "called"
    /\ max_results \in {NoMaxResults, 1, 10}
    /\ output = NoOutput

NextHandler ==
    \/ searchDocs_fetchDocument
    \/ searchInDocs_rank
    \/ selectBestResults_loop
    \/ searchInDocs_return
    \/ searchDocs_return

SpecHandler == InitHandler /\ [][NextHandler]_vars

\* C20: once fetchDocument returned, the output of the handler never has an
\* empty results list: it holds the one sentinel when searchInDocs returned
\* no result and exactly the results of searchInDocs otherwise, and its
\* total_chunks and matched_chunks are those searchInDocs returned.
C20_NoEmptyResultsAfterFetch ==
    (hpc = "done" /\ spc # "idle") =>
       /\ spc = "done"
       /\ output.error = "none"
       /\ output.results # << >>
       /\ searchResult.results = << >> => output.results = <<NoResultsSentinel>>
       /\ searchResult.results # << >> =>
             /\ output.results = searchResult.results
             /\ \A i \in DOMAIN output.results :
                   output.results[i] # NoResultsSentinel
       /\ output.total_chunks = searchResult.totalChunks
       /\ output.matched_chunks = searchResult.matchedChunks
       /\ output.total_chunks = Len(chunks)

\* The handler returned the sentinel for a document of two chunks none of
\* which matched.
C20_Witness ==
    /\ hpc = "done"
    /\ Len(chunks) = 2
    /\ searchResult.results = << >>
    /\ output.results = <<NoResultsSentinel>>
    /\ output.total_chunks = 2
    /\ output.matched_chunks = 0

(***************************************************************************)
(* SpecTool: one call of search_docs in which fetchDocument is followed    *)
(* through smartFetch and the traditional request, in a process whose      *)
(* singletons are empty or were filled by an earlier call.                 *)
(***************************************************************************)
InitTool ==
    /\ \E n \in {0, 1} : httpClientInstance = n /\ clientCreates = n
    /\ installed \in Packages
    /\ \E c \in {<<Null, Null>>, CacheOf(installed)} :
          puppeteerAvailable = c[1] /\ puppeteerModule = c[2]
    /\ importRuns = 0
    /\ SingletonIdle
    /\ RenderIdle
    /\ entry = "fetchDocument"
    /\ useSmartFetch = TRUE
    /\ opts = DEFAULT_OPTIONS
    /\ fpc = entry
    /\ httpResult = NoFetchResult
    /\ detection = NoSwagger
    /\ probeIdx = 0
    /\ sfResult = NoFetchResult
    /\ fdResult = [kind |-> "none", content |-> Null]
    /\ docGets = 0
    /\ specGets = << >> /\ specBodies = << >>
    /\ heads = << >> /\ headAnswers = << >>
    /\ log = << >>
    /\ SearchIdle /\ ChunkIdle /\ DetectIdle /\ ScoreIdle /\ ContextIdle
    /\ OpenApiIdle
    /\ hpc = "fetching"
    /\ max_results \in {NoMaxResults, 1}
    /\ output = NoOutput

NextTool ==
    \/ NextFetch
    \/ searchDocs_fetched
    \/ searchInDocs_rank
    \/ selectBestResults_loop
    \/ searchInDocs_return
    \/ searchDocs_return

SpecTool == InitTool /\ [][NextTool]_vars

MaxBodyWords == 1
Titles == {<<"b">>, <<"c">>}
Words == {<<"a">>, <<"b">>, <<"a", "b">>, <<"c">>}

RECURSIVE JoinWords(_)
JoinWords(ws) ==
    IF Len(ws) = 1 THEN ws[1]
    ELSE ws[1] \o <<" ">> \o JoinWords(Tail(ws))

MarkdownSections ==
    {<<"#", " ">> \o t \o <<Newline>>
        \o (IF filler THEN <<Dots, " ">> ELSE << >>) \o JoinWords(body) :
       t \in Titles, filler \in BOOLEAN,
       body \in UNION {[1..n -> Words] : n \in 1..MaxBodyWords}}

MarkdownQueries ==
    {<<"a">>, <<"b">>, <<"c">>, <<"a", "b">>, <<"a", " ", "b">>,
     <<"b", " ", "a">>, <<"#">>}

InitMarkdown ==
    /\ ProcessIdle
    /\ ChunkIdle /\ DetectIdle /\ ContextIdle /\ HandlerIdle /\ OpenApiIdle
    /\ scoreInput = NoScoreInput /\ scoreOut = << >>
    /\ query \in MarkdownQueries
    /\ chunkTexts = << >>
    /\ \E s1, s2 \in MarkdownSections :
          \E sep \in {<<Newline>>, <<Newline, Newline>>} :
             docText = s1 \o sep \o s2
    /\ JsonIdle
    /\ maxResults = DefaultMaxResults
    /\ spc = "start"
    /\ chunks = << >> /\ scores = << >>
    /\ relevantChunks = << >> /\ loopIdx = 0 /\ usedIndices = {}
    /\ results = << >> /\ searchResult = NoSearchResult

NextMarkdown ==
    \/ searchInDocs_split
    \/ searchInDocs_score
    \/ searchInDocs_rank
    \/ selectBestResults_loop
    \/ searchInDocs_return

SpecMarkdown == InitMarkdown /\ [][NextMarkdown]_vars

\* The two sections of the document: the second starts at the header that
\* is not at the start of the document.
SecondStart ==
    CHOOSE p \in 2..Len(docText) : HeaderPrefixAt(docText, p)
FirstSection == TrimWhitespace(SubSeq(docText, 1, SecondStart - 1))
SecondSection == SubSeq(docText, SecondStart, Len(docText))
WithinFloorAndCap(section) ==
    /\ StringLength(section) > MIN_CHUNK_SIZE
    /\ StringLength(section) < MAX_CHUNK_SIZE

\* searchInDocs returned exactly one result, made from the second section,
\* for a document of two chunks of which one matched.
OnlySecondSectionReturned ==
    /\ Len(chunkTexts) = 2
    /\ TrimWhitespace(chunkTexts[1]) = FirstSection
    /\ chunkTexts[2] = SecondSection
    /\ Len(searchResult.results) = 1
    /\ results[1].index = 1
    /\ \E i \in DOMAIN results[1].context.parts :
          results[1].context.parts[i] = 1
    /\ searchResult.totalChunks = 2
    /\ searchResult.matchedChunks = 1

\* The words of the query, and whether each occurs in a section as written.
QueryWords(q) ==
    {SplitOnSpace(q)[i] : i \in DOMAIN SplitOnSpace(q)} \ {<< >>}

TermFound(section, term) ==
    LET nt == normalizeText(term)
        ws == SplitOnSpace(nt)
        cs == SplitOnSpace(normalizeText(section))
    IN  /\ nt # << >>
        /\ \/ includes(normalizeText(section), nt)
           \/ \E i \in DOMAIN ws, j \in DOMAIN cs :
                 Len(ws[i]) >= 2 /\ IsPrefix(ws[i], cs[j])
QueryFound(section, q) ==
    \E i \in DOMAIN extractSearchTerms(q) :
       TermFound(section, extractSearchTerms(q)[i])

MaxHtmlElements == 2
MaxHtmlParagraphs == 2
MaxParagraphSentences == 2

HtmlSentenceLengths == {30, 1200}

\* The texts of n sentences with the given lengths, joined by a space.
ParagraphText(lens, base) ==
    Flatten([k \in DOMAIN lens |->
                (IF k > 1 THEN <<Space>> ELSE << >>)
                \o <<Sentence(lens[k], base + k)>>])

HtmlParagraphs ==
    UNION {[1..n -> HtmlSentenceLengths] : n \in 1..MaxParagraphSentences}

\* The text of an element: its paragraphs with a blank line between them.
ElementText(paras, base) ==
    Flatten([q \in DOMAIN paras |->
                (IF q > 1 THEN <<ParagraphBreak>> ELSE << >>)
                \o ParagraphText(paras[q], base + 10 * q)])

HtmlElementTexts ==
    UNION {[1..n -> HtmlParagraphs] : n \in 1..MaxHtmlParagraphs}

InitHtmlChunk ==
    /\ ProcessIdle
    /\ SearchIdle
    /\ DetectIdle
    /\ ScoreIdle
    /\ ContextIdle
    /\ HandlerIdle /\ OpenApiIdle
    /\ \E n \in 0..MaxHtmlElements :
          \E tags \in [1..n -> {"p", "pre"}], texts \in [1..n -> HtmlElementTexts] :
             document = [format |-> "html",
                         text |-> << >>,
                         elements |-> [i \in 1..n |->
                            Element(tags[i], ElementText(texts[i], 100 * i))]]
    /\ cpc = "called"
    /\ refinedChunks = << >>
    /\ returnedChunks = << >>

NextHtmlChunk ==
    \/ splitHtmlIntoChunks_group
    \/ splitHtmlIntoChunks_filter
    \/ splitHtmlDocument_toMarkdown
    \/ splitMarkdownDocument_filter

SpecHtmlChunk == InitHtmlChunk /\ [][NextHtmlChunk]_vars

\* A text SEPARATION_PATTERNS.sentences finds no boundary in: no whitespace
\* follows the end of a sentence.
Irreducible(text) == sentences(text) = {}

\* C24: every chunk splitHtmlIntoChunks returns has length <= MAX_CHUNK_SIZE
\* unless it is a single irreducible sentence longer than the cap.
C24_HtmlChunksWithinCap ==
    [][splitHtmlIntoChunks_filter =>
          \A c \in DOMAIN returnedChunks' :
             \/ TextLength(returnedChunks'[c]) <= MAX_CHUNK_SIZE
             \/ Irreducible(returnedChunks'[c])]_vars

\* splitHtmlIntoChunks returned, for one <pre> element holding a paragraph
\* of one short sentence and a paragraph of two sentences of 1200
\* characters, a chunk that holds the second paragraph whole: 2401
\* characters and the closing fence.
C24_Witness ==
    /\ cpc \in {"done", "toMarkdown"}
    /\ Len(document.elements) = 1
    /\ document.elements[1].tag = "pre"
    /\ refinedChunks = groupSectionsIntoChunks(
                          extractSections(cleanHtml(document.elements)))
    /\ \E c \in DOMAIN returnedChunks :
          /\ TextLength(returnedChunks[c]) > MAX_CHUNK_SIZE
          /\ \E i \in DOMAIN returnedChunks[c] :
                /\ i + 2 <= Len(returnedChunks[c])
                /\ returnedChunks[c][i].n = 1200
                /\ returnedChunks[c][i + 1] = Space
                /\ returnedChunks[c][i + 2].n = 1200
    /\ \A i \in DOMAIN document.elements[1].text :
          document.elements[1].text[i].t = "s" =>
             document.elements[1].text[i].n <= MAX_CHUNK_SIZE


(***************************************************************************)
(* SpecOptions: one call of splitIntoChunks in a fresh process, on any     *)
(* document and with any ChunkingOptions.                                  *)
(***************************************************************************)
InitOptions ==
    /\ ProcessIdle
    /\ PureIdle

NextOptions ==
    /\ dcalls = 0
    /\ \E d \in Documents, o \in ChunkingOptions : splitIntoChunks_call(d, o)

SpecOptions == InitOptions /\ [][NextOptions]_vars

\* C25: with forceFormat unset, a document detected as HTML is not chunked
\* with the HTML strategy when enableHtmlFallback is false, and a document
\* detected as JSON is not chunked with the JSON strategy when
\* enableJsonFallback is false.
C25_DisabledStrategyNotChosen ==
    (dcalls > 0 /\ detectArg.options.forceFormat = "none") =>
        /\ (detectResult.format = "html" /\ ~detectArg.options.enableHtmlFallback)
              => chosenFormat # "html"
        /\ (detectResult.format = "json" /\ ~detectArg.options.enableJsonFallback)
              => chosenFormat # "json"

\* splitIntoChunks was called with enableHtmlFallback false and no
\* forceFormat on a document detected as HTML, and ran the HTML strategy.
C25_Witness ==
    /\ dcalls > 0
    /\ detectArg.fn = "splitIntoChunks"
    /\ detectArg.options.forceFormat = "none"
    /\ ~detectArg.options.enableHtmlFallback
    /\ detectResult.format = "html"
    /\ chosenFormat = "html"


(***************************************************************************)
(* splitJsonDocument.  A JSON document is a string; its punctuation is     *)
(* kept character by character, the quote as "q", a falsy number as "0"    *)
(* and a truthy one as "5".  A key is written as its name, kept as one     *)
(* element, followed by a placeholder for each further letter of it.       *)
(***************************************************************************)
MaxJsonDepth == 10

TextFields_TitleFirst ==
    <<"title", "content", "text", "body", "description", "summary",
      "documentation", "docs", "readme", "markdown", "html", "name">>

TextFields ==
    <<"content", "text", "body", "description", "summary", "documentation",
      "docs", "readme", "markdown", "html", "title", "name">>

\* if (record[field]): the value is there and is not falsy.
Truthy(v) ==
    CASE v.kind = "string" -> v.s # << >>
      [] v.kind = "falsy" -> FALSE
      [] OTHER -> TRUE

\* Array.prototype.join("\n\n")
RECURSIVE JoinParts(_)
JoinParts(parts) ==
    IF parts = << >> THEN << >>
    ELSE IF Len(parts) = 1 THEN parts[1]
    ELSE parts[1] \o <<Newline, Newline>> \o JoinParts(Tail(parts))

RECURSIVE extractJsonTextContent(_, _)
extractJsonTextContent(obj, depth) ==
    IF depth > MaxJsonDepth THEN << >>
    ELSE IF obj.kind = "string" THEN obj.s
    ELSE IF obj.kind = "array"
       THEN JoinParts([i \in DOMAIN obj.items |->
                          extractJsonTextContent(obj.items[i], depth + 1)])
    ELSE IF obj.kind = "object"
       THEN LET record == obj.items
                Has(field) == \E i \in DOMAIN record :
                                 /\ record[i].name = field
                                 /\ Truthy(record[i].value)
                Get(field) ==
                    record[CHOOSE i \in DOMAIN record : record[i].name = field].value
                known == [k \in DOMAIN TextFields |->
                             IF Has(TextFields[k])
                                THEN extractJsonTextContent(Get(TextFields[k]),
                                                            depth + 1)
                                ELSE << >>]
                parts == SelectSeq(known, LAMBDA content : content # << >>)
                values == [i \in DOMAIN record |->
                              extractJsonTextContent(record[i].value, depth + 1)]
            IN  JoinParts(IF parts = << >>
                             THEN SelectSeq(values, LAMBDA content : content # << >>)
                             ELSE parts)
    ELSE << >>

\* The number of letters of the keys the documents of the model use.
KeyLength ==
    [description |-> 11, title |-> 5, extra |-> 5, other |-> 5, content |-> 7]

KeyText(name) == <<"q", name>> \o [i \in 1..(KeyLength[name] - 1) |-> "k"] \o <<"q">>

\* The text of a JSON value, written without whitespace.
RECURSIVE RawJson(_)
RECURSIVE RawJsonList(_, _)
RawJsonList(items, isObject) ==
    IF items = << >> THEN << >>
    ELSE (IF isObject
             THEN KeyText(items[1].name) \o <<":">> \o RawJson(items[1].value)
             ELSE RawJson(items[1]))
         \o (IF Len(items) > 1 THEN <<",">> ELSE << >>)
         \o RawJsonList(Tail(items), isObject)
RawJson(v) ==
    CASE v.kind = "string" -> <<"q">> \o v.s \o <<"q">>
      [] v.kind = "falsy" -> <<"0">>
      [] v.kind = "truthy" -> <<"5">>
      [] v.kind = "array" -> <<"[">> \o RawJsonList(v.items, FALSE) \o <<"]">>
      [] OTHER -> <<"{">> \o RawJsonList(v.items, TRUE) \o <<"}">>

\* JSON.parse of a well-formed text, from position i on: the value read and
\* the position that follows it.
RECURSIVE ParseValue(_, _)
RECURSIVE ParseItems(_, _, _)
RECURSIVE ParseFields(_, _, _)
ParseValue(text, i) ==
    CASE text[i] = "q" ->
            LET j == CHOOSE j \in (i + 1)..Len(text) :
                        /\ text[j] = "q"
                        /\ \A k \in (i + 1)..(j - 1) : text[k] # "q"
            IN  [v |-> JString(SubSeq(text, i + 1, j - 1)), next |-> j + 1]
      [] text[i] = "0" -> [v |-> JFalsy, next |-> i + 1]
      [] text[i] = "5" -> [v |-> JTruthy, next |-> i + 1]
      [] text[i] = "[" ->
            IF text[i + 1] = "]" THEN [v |-> JArray(<< >>), next |-> i + 2]
            ELSE ParseItems(text, i + 1, << >>)
      [] OTHER ->
            IF text[i + 1] = "}" THEN [v |-> JObject(<< >>), next |-> i + 2]
            ELSE ParseFields(text, i + 1, << >>)
ParseItems(text, i, acc) ==
    LET r == ParseValue(text, i)
    IN  IF text[r.next] = ","
           THEN ParseItems(text, r.next + 1, Append(acc, r.v))
           ELSE [v |-> JArray(Append(acc, r.v)), next |-> r.next + 1]
ParseFields(text, i, acc) ==
    LET key == ParseValue(text, i)
        r == ParseValue(text, key.next + 1)
        field == Field(key.v.s[1], r.v)
    IN  IF text[r.next] = ","
           THEN ParseFields(text, r.next + 1, Append(acc, field))
           ELSE [v |-> JObject(Append(acc, field)), next |-> r.next + 1]

JSON_parse(text) == ParseValue(text, 1).v

\* searchInDocs on a document detected as JSON, up to the chunks:
\* splitIntoChunks chooses splitJsonDocument, which chunks the extracted
\* text as Markdown, or the document itself when nothing was extracted.
splitJsonDocument_call ==
    /\ spc = "start"
    /\ LET r == detectDocumentFormat(
                   [StringFeatures(docText) EXCEPT !.json = "valid"], lastIndex)
           format == detectFormat(r.result, TRUE, TRUE)
       IN  /\ format = "json"
           /\ parsed' = JSON_parse(docText)
           /\ textContent' = extractJsonTextContent(parsed', 0)
           /\ chunkTexts' = IF textContent' # << >>
                               THEN splitMarkdownString(textContent')
                               ELSE splitMarkdownString(docText)
           /\ detectResult' = r.result
           /\ chosenFormat' = format
           /\ lastIndex' = StrategyRegexUse(format, r.lastIndex)
    /\ spc' = "entered"
    /\ UNCHANGED <<detectArg, dcalls>>
    /\ UNCHANGED <<scoreInput, scoreOut, query, docText>>
    /\ UNCHANGED <<chunks, scores, maxResults, relevantChunks, loopIdx,
                   usedIndices, results, searchResult>>
    /\ UNCHANGED <<processVars, chunkVars, contextVars, handlerVars,
      openApiVars>>

(***************************************************************************)
(* SpecJson: searchInDocs, up to the scores, on a JSON document: an object *)
(* of up to MaxJsonFields fields or an array of as many items, each a      *)
(* string, a number or null; those of one element at most also wrapped    *)
(* MaxNesting times at most in an array or MaxObjectNesting times at most *)
(* in an object of one field.                                              *)
(***************************************************************************)
MaxJsonFields == 2
MaxNesting == 11
MaxObjectNesting == 1

RateLimitsApply == <<"a", "b", "c", " ", "b", "c", "a", "c", " ", Dots>>
JsonTexts == {<< >>, RateLimitsApply, <<"c", " ", Dots>>}
JsonKeys == {"description", "title", "extra", "other"}
JsonQueries == {<<"a", "b", "c", " ", "b", "c", "a">>, <<"c">>}

Leaves == {JString(t) : t \in JsonTexts} \cup {JFalsy, JTruthy}

FlatObjects ==
    UNION {{JObject([i \in 1..n |-> Field(names[i], values[i])]) :
               names \in {ks \in [1..n -> JsonKeys] :
                            \A i, j \in 1..n : i # j => ks[i] # ks[j]},
               values \in [1..n -> Leaves]} :
           n \in 0..MaxJsonFields}

FlatArrays ==
    UNION {{JArray(values) : values \in [1..n -> Leaves]} : n \in 0..MaxJsonFields}

RECURSIVE Nest(_, _, _)
Nest(v, n, wrapper) ==
    IF n = 0 THEN v
    ELSE Nest(IF wrapper = "array" THEN JArray(<<v>>)
              ELSE JObject(<<Field(wrapper, v)>>),
              n - 1, wrapper)

\* The objects and arrays that are wrapped: those of one element at most.
Cores == {v \in FlatObjects \cup FlatArrays : Len(v.items) <= 1}

JsonDocuments ==
    FlatObjects \cup FlatArrays
    \cup {Nest(v, n, "array") : v \in Cores, n \in 1..MaxNesting}
    \cup {Nest(v, n, wrapper) : v \in Cores, n \in 1..MaxObjectNesting,
                                wrapper \in {"content", "extra"}}

InitJson ==
    /\ ProcessIdle
    /\ ChunkIdle /\ DetectIdle /\ ContextIdle /\ HandlerIdle /\ OpenApiIdle
    /\ scoreInput = NoScoreInput /\ scoreOut = << >>
    /\ query \in JsonQueries
    /\ chunkTexts = << >>
    /\ \E v \in JsonDocuments : docText = RawJson(v)
    /\ JsonIdle
    /\ maxResults = DefaultMaxResults
    /\ spc = "start"
    /\ chunks = << >> /\ scores = << >>
    /\ relevantChunks = << >> /\ loopIdx = 0 /\ usedIndices = {}
    /\ results = << >> /\ searchResult = NoSearchResult

NextJson ==
    \/ splitJsonDocument_call
    \/ searchInDocs_score

SpecJson == InitJson /\ [][NextJson]_vars

\* The non-empty strings an object holds directly, under the given names
\* and in their order.
StringsUnder(obj, names) ==
    LET at(name) ==
            IF \E i \in DOMAIN obj.items :
                  obj.items[i].name = name /\ obj.items[i].value.kind = "string"
            THEN obj.items[CHOOSE i \in DOMAIN obj.items :
                              obj.items[i].name = name].value.s
            ELSE << >>
    IN  SelectSeq([k \in DOMAIN names |-> at(names[k])], LAMBDA t : t # << >>)

\* Whether every field of the object holds a string, a number or null.
IsFlatObject(v) ==
    /\ v.kind = "object"
    /\ \A i \in DOMAIN v.items :
          v.items[i].value.kind \in {"string", "falsy", "truthy"}

\* The depth of the shallowest string of a value that is at depth d; 99
\* when the value holds none.
RECURSIVE StringDepth(_, _)
StringDepth(v, d) ==
    IF v.kind = "string" THEN d
    ELSE IF v.kind \in {"array", "object"} /\ v.items # << >>
       THEN LET item(i) == IF v.kind = "array" THEN v.items[i]
                           ELSE v.items[i].value
                depths == {StringDepth(item(i), d + 1) : i \in DOMAIN v.items}
            IN  CHOOSE m \in depths : \A n \in depths : m <= n
    ELSE 99

\* The order in which the documentation fields are to be read.
FixedOrder ==
    <<"content", "text", "body", "description", "summary", "documentation",
      "docs", "readme", "markdown", "html", "title", "name">>

\* C26: extractJsonTextContent returns, for an object, the texts of its
\* known documentation fields in the order content, text, body,
\* description, summary, documentation, docs, readme, markdown, html,
\* title, name when one of them yields a non-empty string, and otherwise
\* the texts of all its fields in their own order; it returns, and nothing of what stands deeper than
\* MaxJsonDepth levels is in what it returns; the document
\* {"description": "Rate limits apply."} comes out as the single chunk
\* 'Rate limits apply.', whose score for 'rate limit' is positive.
C26_JsonTextExtraction ==
    spc # "start" =>
       /\ IsFlatObject(parsed) =>
             LET known == StringsUnder(parsed, FixedOrder)
                 names == [i \in DOMAIN parsed.items |-> parsed.items[i].name]
             IN  textContent = JoinParts(IF known # << >> THEN known
                                         ELSE StringsUnder(parsed, names))
       /\ StringDepth(parsed, 0) > MaxJsonDepth =>
             \A i \in DOMAIN textContent : textContent[i] = Newline
       /\ parsed = JObject(<<Field("description", JString(RateLimitsApply))>>) =>
             /\ chunkTexts = <<RateLimitsApply>>
             /\ (spc = "called" /\ query = <<"a", "b", "c", " ", "b", "c", "a">>)
                   => scores[1] > 0

\* searchInDocs scored the one chunk of {"description": "Rate limits
\* apply."} for the query 'rate limit'.
C26_Witness ==
    /\ spc = "called"
    /\ docText = RawJson(JObject(<<Field("description", JString(RateLimitsApply))>>))
    /\ query = <<"a", "b", "c", " ", "b", "c", "a">>
    /\ chunkTexts = <<RateLimitsApply>>
    /\ scores[1] > 0


(***************************************************************************)
(* SpecOpenApi: trySwaggerExtraction, with no endpoint to probe, on a spec *)
(* URL that serves any of SpecResponses, and the test fetchDocument makes  *)
(* of the result.                                                          *)
(***************************************************************************)
InitOpenApi ==
    /\ ProcessIdle
    /\ SearchIdle /\ ChunkIdle /\ DetectIdle /\ ScoreIdle /\ ContextIdle
    /\ HandlerIdle
    /\ opc = "start"
    /\ specData \in SpecResponses
    /\ spec = NullSpec
    /\ swaggerResult = NoFetchResult

NextOpenApi ==
    \/ fetchOpenApiSpec_call
    \/ trySwaggerExtraction_render
    \/ fetchDocument_test

SpecOpenApi == InitOpenApi /\ [][NextOpenApi]_vars

\* A YAML document that describes an API by the fields isValidOpenApiSpec
\* reads and that openApiToMarkdown renders to some text.
ServesYamlSpec ==
    /\ specData.kind = "yamlString"
    /\ SpecOutcome(SpecData("object", specData.obj)) = "valid"

\* C27: when the spec URL serves a YAML OpenAPI document, the body is kept
\* as raw text for a later YAML parse and the spec is still retrieved:
\* trySwaggerExtraction does not fail because the body was not parsed.
C27_YamlSpecRetrieved ==
    (ServesYamlSpec /\ opc \in {"returned", "contentReturned", "traditional"})
       => swaggerResult.success

\* The spec URL served a YAML document with openapi: 3.x, info and paths;
\* fetchOpenApiSpec wrapped it and trySwaggerExtraction returned a failure.
C27_Witness ==
    /\ opc = "returned"
    /\ specData.kind = "yamlString"
    /\ specData.obj.openapi = "3." /\ specData.obj.info
    /\ specData.obj.paths = "operations"
    /\ spec.rawYaml
    /\ ~swaggerResult.success

\* C28: a result with success = true and contentType = openapi carries a
\* non-empty content: every object isValidOpenApiSpec accepts is rendered
\* to a non-empty Markdown, and fetchDocument does not discard the result.
C28_OpenApiContentNotEmpty ==
    /\ (opc \in {"returned", "contentReturned", "traditional"}
        /\ swaggerResult.success /\ swaggerResult.contentType = "openapi")
          => swaggerResult.content # ""
    /\ (opc = "traditional") => ~swaggerResult.success

\* The spec URL served { "components": {} } and nothing else;
\* trySwaggerExtraction returned success with an empty content, and
\* fetchDocument went on to the traditional request.
C28_Witness ==
    /\ opc = "traditional"
    /\ specData = SpecData("object", [NoSpecFields EXCEPT !.components = "noSchemas"])
    /\ swaggerResult.success
    /\ swaggerResult.contentType = "openapi"
    /\ swaggerResult.content = ""


\* The sum of the lengths of the chunks with the given indices.
RECURSIVE SumOfChunks(_, _)
SumOfChunks(cs, indices) ==
    IF indices = << >> THEN 0
    ELSE ChunkLength(cs, Head(indices)) + SumOfChunks(cs, Tail(indices))

\* C29: getExpandedContext returns for every chunk sequence and index; an
\* index outside the sequence gives the empty string; for a valid index
\* the result holds the target chunk, each neighbour whole or not at all
\* and in the order of the document; the left neighbour is taken when it
\* fits with the target, and the right one when it fits with what was
\* taken, whether the left one was taken or not.
C29_BestEffortContext ==
    contextOut # NoContext =>
       LET cs == contextArg.chunks
           t == contextArg.targetIndex
           parts == contextOut.parts
           left == \E i \in DOMAIN parts : parts[i] = t - 1
           right == \E i \in DOMAIN parts : parts[i] = t + 1
           taken == ChunkLength(cs, t)
                    + (IF left THEN ChunkLength(cs, t - 1) ELSE 0)
       IN  IF ~ChunkDefined(cs, t)
              THEN contextOut = [parts |-> << >>, length |-> 0]
              ELSE /\ parts = (IF left THEN <<t - 1>> ELSE << >>) \o <<t>>
                              \o (IF right THEN <<t + 1>> ELSE << >>)
                   /\ contextOut.length =
                         SumOfChunks(cs, parts)
                         + ContextSeparatorLength * (Len(parts) - 1)
                   /\ left <=> /\ ChunkDefined(cs, t - 1)
                               /\ ChunkLength(cs, t) + ChunkLength(cs, t - 1)
                                     < MAX_CONTEXT_SIZE
                   /\ right <=> /\ ChunkDefined(cs, t + 1)
                                /\ taken + ChunkLength(cs, t + 1)
                                      < MAX_CONTEXT_SIZE

\* The target had a left neighbour that did not fit and a right one that
\* did: the result is the target followed by its right neighbour.
C29_Witness ==
    /\ contextOut # NoContext
    /\ contextArg.targetIndex = 1
    /\ Len(contextArg.chunks) = 3
    /\ ChunkLength(contextArg.chunks, 0) = 2999
    /\ contextOut.parts = <<1, 2>>

(***************************************************************************)
(* SpecStatus: calls of getPuppeteerStatus, one after the other, in a      *)
(* process where any of the packages may be installed.  The function       *)
(* awaits isPuppeteerAvailable, then runs its try body: launch,            *)
(* browser.version(), executablePath(), browser.close().  Each of the four *)
(* can throw; the catch clause returns {available: true} and the function  *)
(* has no finally clause.                                                  *)
(***************************************************************************)
MaxStatusCalls == 2

StatusResult(a, v, e) == [available |-> a, version |-> v, executablePath |-> e]

getPuppeteerStatusOps == <<"launch", "version", "executablePath", "close">>

getPuppeteerStatus_call ==
    /\ rpc \in {"idle", "returned"}
    /\ launches < MaxStatusCalls
    /\ renderEnter("getPuppeteerStatus", NoRenderOptions)
    /\ UNCHANGED <<launches, closeCalls, closeFailed>>
    /\ UNCHANGED <<httpClientInstance, clientCreates, puppeteerAvailable,
                   puppeteerModule, installed, importRuns, cret>>
    /\ UNCHANGED fetchVars
    /\ UNCHANGED pureVars

\* const available = await isPuppeteerAvailable();
\* if (!available || !puppeteerModule) return { available: false };
getPuppeteerStatus_available ==
    /\ rfn = "getPuppeteerStatus"
    /\ rpc = "avail"
    /\ apc[Main] = "done"
    /\ apc' = [apc EXCEPT ![Main] = "idle"]
    /\ IF aret[Main] # "true" \/ puppeteerModule = Null
          THEN /\ rresult' = StatusResult(FALSE, Null, Null)
               /\ rpc' = "returned"
               /\ UNCHANGED rstep
          ELSE /\ rpc' = "try"
               /\ rstep' = 1
               /\ UNCHANGED rresult
    /\ UNCHANGED <<rfn, ropts, browser, launches, closeCalls, closeFailed,
                   rpending>>
    /\ UNCHANGED <<httpClientInstance, clientCreates, puppeteerAvailable,
                   puppeteerModule, installed, importRuns, aret, cret>>
    /\ UNCHANGED fetchVars
    /\ UNCHANGED pureVars

\* One statement of the try body runs to its end.  After close() the
\* function returns the full status.
getPuppeteerStatus_step ==
    /\ rfn = "getPuppeteerStatus"
    /\ rpc = "try"
    /\ LET op == getPuppeteerStatusOps[rstep] IN
          /\ browser' = IF op = "launch" THEN "set" ELSE browser
          /\ launches' = IF op = "launch" THEN launches + 1 ELSE launches
          /\ closeCalls' = IF op = "close" THEN closeCalls + 1 ELSE closeCalls
          /\ closeFailed' = IF op = "close" THEN FALSE ELSE closeFailed
          /\ IF op = "close"
                THEN /\ rresult' = StatusResult(TRUE, "version", "path")
                     /\ rpc' = "returned"
                     /\ UNCHANGED rstep
                ELSE /\ rstep' = rstep + 1
                     /\ UNCHANGED <<rresult, rpc>>
    /\ UNCHANGED <<rfn, ropts, rpending>>
    /\ UNCHANGED <<singletonVars, fetchVars>>
    /\ UNCHANGED pureVars

\* One statement of the try body throws: control goes to the catch clause,
\* which returns {available: true} and does nothing else.  A close() that
\* throws has been called; a launch that throws has launched nothing.
getPuppeteerStatus_catch ==
    /\ rfn = "getPuppeteerStatus"
    /\ rpc = "try"
    /\ LET op == getPuppeteerStatusOps[rstep] IN
          /\ closeCalls' = IF op = "close" THEN closeCalls + 1 ELSE closeCalls
          /\ closeFailed' = IF op = "close" THEN TRUE ELSE closeFailed
    /\ rresult' = StatusResult(TRUE, Null, Null)
    /\ rpc' = "returned"
    /\ UNCHANGED <<rfn, rstep, ropts, browser, launches, rpending>>
    /\ UNCHANGED <<singletonVars, fetchVars>>
    /\ UNCHANGED pureVars

InitStatus == InitRender

NextStatus ==
    \/ getPuppeteerStatus_call
    \/ stepRenderAvailability
    \/ getPuppeteerStatus_available
    \/ getPuppeteerStatus_step
    \/ getPuppeteerStatus_catch

SpecStatus == InitStatus /\ [][NextStatus]_vars

\* C30: when getPuppeteerStatus has returned, every browser it launched has
\* had close() called on it, on every exit path: also when browser.version()
\* or executablePath() threw after the launch and the function returned
\* {available: true}.
C30_StatusClosesBrowser ==
    (rfn = "getPuppeteerStatus" /\ rpc = "returned") => closeCalls = launches

\* getPuppeteerStatus launched a browser, browser.version() threw, and the
\* function has returned {available: true} with close() never called.
C30_Witness ==
    /\ rfn = "getPuppeteerStatus"
    /\ rpc = "returned"
    /\ rstep = 2
    /\ launches = 1
    /\ closeCalls = 0
    /\ rresult = StatusResult(TRUE, Null, Null)

=============================================================================
